---- MODULE Spec2Model ----
(***************************************************************************)
(* A model of curvelops' FDCT linear operator (src/curvelops/curvelops.py): *)
(* construction, forward application (_matvec), adjoint/inverse            *)
(* application (_rmatvec) and the struct/vect coefficient codec.           *)
(*                                                                         *)
(* Arrays are NumPy C-contiguous arrays: a record [shape, data] whose data *)
(* is the row-major flattening.  Axes and indices are 0-based as in the    *)
(* source; TLA+ sequences are 1-based, hence the "+ 1" at every access.    *)
(* Complex numbers are Gaussian integers <<re, im>>.                       *)
(*                                                                         *)
(* The native CurveLab wrappers (fdct2d_wrapper, fdct3d_wrapper) are       *)
(* compiled extensions whose sources are not part of the Python sources;   *)
(* they are modelled from their contract: a shape table that depends on    *)
(* the extents in the order given, a linear forward transform whose        *)
(* wedges are transposed with respect to the input, and an inverse that    *)
(* undoes it and is its adjoint.                                           *)
(***************************************************************************)
EXTENDS Integers, Sequences, FiniteSets, TLC

VARIABLES call, op, fwd, inv, codec, invcall, dot, lin, run, wedges, cut, mem

vars == <<call, op, fwd, inv, codec, invcall, dot, lin, run, wedges, cut, mem>>

(***************************************************************************)
(* Bounds of the model.                                                    *)
(***************************************************************************)
MaxRank == 4
MaxInitRank == 3
MaxDim == 2
MaxCols == 4
MaxScales == 2
MaxAngles == 2
MaxAxes == 4
LargeDim == 16
MaxSplitRank == 2
MaxExtent == 4
MaxSplits == 3

\* slice(None), the colon operator, in a batch index
Colon == -1

\* nbscales=None
None == -99

Zero == <<0, 0>>

(***************************************************************************)
(* Sequences and index arithmetic.                                         *)
(***************************************************************************)
\* F applied to the value of e: a local name for a value used more than once
Bind(e, F(_)) == F(e)

Range(n) == [i \in 1..n |-> i - 1]

RECURSIVE Prod(_)
Prod(s) == IF Len(s) = 0 THEN 1 ELSE Head(s) * Prod(Tail(s))

RECURSIVE Sum(_)
Sum(s) == IF Len(s) = 0 THEN 0 ELSE Head(s) + Sum(Tail(s))

RECURSIVE MinOf(_)
MinOf(s) == IF Len(s) = 1 THEN s[1]
            ELSE Bind(MinOf(Tail(s)), LAMBDA m : IF s[1] < m THEN s[1] ELSE m)

RECURSIVE ConcatAll(_)
ConcatAll(ss) == IF Len(ss) = 0 THEN <<>> ELSE Head(ss) \o ConcatAll(Tail(ss))

Reverse(s) == [i \in 1..Len(s) |-> s[Len(s) + 1 - i]]

\* a product whose first iterable varies fastest
RECURSIVE product_first_fastest(_)
product_first_fastest(lists) ==
    IF Len(lists) = 0 THEN << <<>> >>
    ELSE Bind(product_first_fastest(SubSeq(lists, 1, Len(lists) - 1)), LAMBDA rest :
            ConcatAll([h \in 1..Len(lists[Len(lists)]) |->
                         [r \in 1..Len(rest) |->
                             rest[r] \o <<lists[Len(lists)][h]>>]]))

\* itertools.product: the last iterable varies fastest
RECURSIVE product(_)
product(lists) ==
    IF Len(lists) = 0 THEN << <<>> >>
    ELSE Bind(product(Tail(lists)), LAMBDA rest :
            ConcatAll([h \in 1..Len(lists[1]) |->
                         [r \in 1..Len(rest) |-> <<lists[1][h]>> \o rest[r]]]))

\* flat position of a multi-index in a C-contiguous array of the given shape
RECURSIVE RavelIndexFrom(_, _, _, _)
RavelIndexFrom(idx, shape, ax, acc) ==
    IF ax > Len(shape) THEN acc
    ELSE RavelIndexFrom(idx, shape, ax + 1, acc * shape[ax] + idx[ax])

RavelIndex(idx, shape) == RavelIndexFrom(idx, shape, 1, 0)

\* least k with 2^k >= m: ceil(log2(m)) for m >= 1
RECURSIVE CeilLog2From(_, _, _)
CeilLog2From(m, k, p) == IF p >= m THEN k ELSE CeilLog2From(m, k + 1, 2 * p)

CeilLog2(m) == CeilLog2From(m, 0, 1)

\* complex numbers <<re, im>>
CAdd(a, b) == <<a[1] + b[1], a[2] + b[2]>>

CMul(a, b) == <<a[1] * b[1] - a[2] * b[2], a[1] * b[2] + a[2] * b[1]>>

Conj(a) == <<a[1], -a[2]>>

\* np.vdot(a, b): the sum of conj(a[k]) * b[k]
RECURSIVE Vdot(_, _)
Vdot(a, b) ==
    IF Len(a) = 0 THEN Zero
    ELSE CAdd(CMul(Conj(Head(a)), Head(b)), Vdot(Tail(a), Tail(b)))

\* a * x1 + b * x2 for scalars a, b and vectors x1, x2 of one length
Combine(a, x1, b, x2) ==
    [k \in 1..Len(x1) |-> CAdd(CMul(a, x1[k]), CMul(b, x2[k]))]

(***************************************************************************)
(* NumPy arrays.                                                           *)
(***************************************************************************)
Array(shape, data) == [shape |-> shape, data |-> data]

zeros(shape) == Array(shape, [p \in 1..Prod(shape) |-> Zero])

\* x.reshape(shape) of a flat sequence
reshape(x, shape) == Array(shape, x)

\* a ravel that walks the array backwards
ravel_reversed(arr) == Reverse(arr.data)

\* coef.ravel()
ravel(arr) == arr.data

\* the full indices an index tuple selects, in row-major order of the selection
Selected(shape, index) ==
    product([ax \in 1..Len(shape) |->
                IF index[ax] = Colon THEN Range(shape[ax]) ELSE <<index[ax]>>])

\* the flat positions (1-based) of the full indices sel in an array of that shape
Positions(shape, sel) == [p \in 1..Len(sel) |-> RavelIndex(sel[p], shape) + 1]

\* the shape of arr[index]: the extents of the axes indexed by a colon
RECURSIVE SubShape(_, _)
SubShape(shape, index) ==
    IF Len(shape) = 0 THEN <<>>
    ELSE (IF Head(index) = Colon THEN <<Head(shape)>> ELSE <<>>)
         \o SubShape(Tail(shape), Tail(index))

\* arr[index]
GetItem(arr, index) ==
    Bind(Positions(arr.shape, Selected(arr.shape, index)), LAMBDA pos :
        Array(SubShape(arr.shape, index),
              [p \in 1..Len(pos) |-> arr.data[pos[p]]]))

\* NumPy assignment strips unit dimensions from the left of a value that has
\* more dimensions than the target
RECURSIVE StripLeadingOnes(_, _)
StripLeadingOnes(vshape, n) ==
    IF Len(vshape) > n /\ Head(vshape) = 1
    THEN StripLeadingOnes(Tail(vshape), n) ELSE vshape

PadLeft(vshape, n) == [q \in 1..(n - Len(vshape)) |-> 1] \o vshape

\* the value shape as NumPy aligns it with a target of rank n
Aligned(vshape, n) ==
    Bind(StripLeadingOnes(vshape, n), LAMBDA v :
        IF Len(v) <= n THEN PadLeft(v, n) ELSE v)

Broadcastable(vshape, tshape) ==
    Bind(Aligned(vshape, Len(tshape)), LAMBDA v :
        /\ Len(v) = Len(tshape)
        /\ \A q \in 1..Len(tshape) : v[q] \in {1, tshape[q]})

\* for each index of the region (row-major), the flat position (1-based) in the
\* value, of aligned shape pad, that broadcasting reads
BroadcastSource(pad, reg) ==
    [p \in 1..Len(reg) |->
        RavelIndex([q \in 1..Len(pad) |-> IF pad[q] = 1 THEN 0 ELSE reg[p][q]],
                   pad) + 1]

\* data with data[pos[p]] replaced by vdata[src[p]] for every p
Scatter(data, pos, vdata, src) ==
    [t \in 1..Len(data) |->
        IF \E p \in 1..Len(pos) : pos[p] = t
        THEN vdata[src[CHOOSE p \in 1..Len(pos) : pos[p] = t]]
        ELSE data[t]]

\* arr[index] = val, with NumPy broadcasting of val to the selected region
SetItem(arr, index, val) ==
    Bind(SubShape(arr.shape, index), LAMBDA rshape :
        IF ~Broadcastable(val.shape, rshape)
        THEN [ok |-> FALSE, err |-> "ValueError", val |-> arr]
        ELSE [ok |-> TRUE, err |-> "",
              val |-> Array(arr.shape,
                        Scatter(arr.data,
                                Positions(arr.shape, Selected(arr.shape, index)),
                                val.data,
                                BroadcastSource(
                                    Aligned(val.shape, Len(rshape)),
                                    product([q \in 1..Len(rshape) |->
                                                Range(rshape[q])]))))])

(***************************************************************************)
(* The native CurveLab capability: parameter query, forward and inverse    *)
(* transform over exactly 2 or 3 axes.                                     *)
(***************************************************************************)
\* number of angular wedges of scale s (1 = coarsest): one wedge at the
\* coarsest scale and at a wavelet finest scale
NbWedges(s, nbscales, nbangles_coarse, allcurvelets) ==
    IF s = 1 THEN 1
    ELSE IF s = nbscales /\ ~allcurvelets THEN 1
    ELSE nbangles_coarse

\* extent of the wedges of scale s along native axis a (1 = x, 2 = y, 3 = z)
WedgeExtent(extents, a, s) == IF s = 1 \/ a = 1 THEN extents[a] ELSE 1

\* fdct2d_param_wrap / fdct3d_param_wrap: ns[a][s][w] is the extent along native
\* axis a of wedge w of scale s (ns[1] = nxs, ns[2] = nys, ns[3] = nzs)
fdct_param_wrap(extents, nbscales, nbangles_coarse, allcurvelets) ==
    IF nbscales < 1
    THEN [ok |-> FALSE, err |-> "NativeError", ns |-> <<>>]
    ELSE [ok |-> TRUE, err |-> "",
          ns |-> [a \in 1..Len(extents) |->
                    [s \in 1..nbscales |->
                       [w \in 1..NbWedges(s, nbscales, nbangles_coarse, allcurvelets) |->
                          WedgeExtent(extents, a, s)]]]]

\* the shape of native wedge [s][w] as a NumPy array: (ny, nx) or (nz, ny, nx)
NativeShape(ns, s, w) == Reverse([a \in 1..Len(ns) |-> ns[a][s][w]])

\* arr with its axes reversed (arr.T)
Transpose(arr) ==
    Bind(product([q \in 1..Len(arr.shape) |-> Range(Reverse(arr.shape)[q])]),
         LAMBDA idxs :
            Array(Reverse(arr.shape),
                  [p \in 1..Len(idxs) |->
                      arr.data[RavelIndex(Reverse(idxs[p]), arr.shape) + 1]]))

\* fdct2d_forward_wrap / fdct3d_forward_wrap on one slice: the coefficient struct
\* of the slice, shaped by the parameter table of the slice's own extents
fdct_forward_wrap(fdim, nbscales, nbangles_coarse, allcurvelets, x_shaped) ==
    Bind(fdct_param_wrap(x_shaped.shape, nbscales, nbangles_coarse, allcurvelets),
         LAMBDA par :
            IF Len(x_shaped.shape) # fdim \/ ~par.ok
            THEN [ok |-> FALSE, err |-> "NativeError", val |-> <<>>]
            ELSE [ok |-> TRUE, err |-> "",
                  val |-> [s \in 1..nbscales |->
                             [w \in 1..Len(par.ns[1][s]) |->
                                IF s = 1 THEN Transpose(x_shaped)
                                ELSE zeros(NativeShape(par.ns, s, w))]]])

\* the struct has the shapes of the parameter table of the given extents
NativeStructOk(extents, nbscales, nbangles_coarse, allcurvelets, c_struct) ==
    Bind(fdct_param_wrap(extents, nbscales, nbangles_coarse, allcurvelets),
         LAMBDA par :
            /\ par.ok
            /\ Len(c_struct) = nbscales
            /\ \A s \in 1..nbscales :
                  /\ Len(c_struct[s]) = Len(par.ns[1][s])
                  /\ \A w \in 1..Len(c_struct[s]) :
                        c_struct[s][w].shape = NativeShape(par.ns, s, w))

\* fdct2d_inverse_wrap / fdct3d_inverse_wrap: the slice of the given extents
fdct_inverse_wrap(fdim, extents, nbscales, nbangles_coarse, allcurvelets, c_struct) ==
    IF Len(extents) # fdim
       \/ ~NativeStructOk(extents, nbscales, nbangles_coarse, allcurvelets, c_struct)
    THEN [ok |-> FALSE, err |-> "NativeError", val |-> zeros(<<>>)]
    ELSE [ok |-> TRUE, err |-> "", val |-> Transpose(c_struct[1][1])]

\* one call of the operator into the native library: the wrapper called (fn is
\* "param", "forward" or "inverse" of the 2D or 3D wrapper, by fdim) and its
\* arguments; a slice argument is recorded as the batch index it was taken at
NativeCall(fn, fdim, args) == [fn |-> fn, fdim |-> fdim, args |-> args]

(***************************************************************************)
(* FDCT.__init__                                                           *)
(***************************************************************************)
\* numpy.core.multiarray.normalize_axis_index; Colon - 1 stands for AxisError
AxisError == Colon - 1

\* a normalization that checks the range and mirrors a negative axis to
\* -d - 1 instead of wrapping it to d + ndim
normalize_axis_index_nowrap(d, ndim) ==
    IF d < -ndim \/ d >= ndim THEN AxisError
    ELSE IF d < 0 THEN -d - 1 ELSE d

normalize_axis_index(d, ndim) ==
    IF d < -ndim \/ d >= ndim THEN AxisError
    ELSE IF d < 0 THEN d + ndim ELSE d

\* a dtype test that also accepts real floating types
IsFloating(dtype) == dtype \in {"complex64", "complex128", "float32", "float64"}

\* np.issubdtype(dtype, np.complexfloating)
IsComplexFloating(dtype) == dtype \in {"complex64", "complex128"}

NoOperator(status, error) ==
    [status |-> status, error |-> error,
     input_shape |-> <<>>, fdim |-> 0, shapes |-> <<>>, output_len |-> 0,
     ndim_iterable |-> 0, iterator |-> <<>>,
     inpdims |-> <<>>, axes |-> <<>>, nbscales |-> 0, nbangles_coarse |-> 0,
     allcurvelets |-> FALSE, cpx |-> FALSE,
     dtype |-> "", dims |-> <<>>, dimsd |-> <<>>, shape |-> <<0, 0>>,
     native |-> <<>>]

\* __init__ raised after it had called the native parameter query
RaisedAfterQuery(error, query) ==
    [NoOperator("error", error) EXCEPT !.native = <<query>>]

\* the call fdct2d_param_wrap / fdct3d_param_wrap(*self._input_shape, nbscales,
\* nbangles_coarse, allcurvelets)
ParamQuery(input_shape, nbscales, nbangles_coarse, allcurvelets) ==
    NativeCall("param", Len(input_shape),
               input_shape \o <<nbscales, nbangles_coarse, allcurvelets>>)

\* iterable_axes = [i not in axes for i in range(ndim)]
iterable_axes(ndim, axes) ==
    [i \in 1..ndim |-> ~(\E k \in 1..Len(axes) : axes[k] = i - 1)]

\* iterable dims that keep the extents of the transform axes
iterable_dims_all(dims, iterable) == dims

\* iterable dims taken from the last axis to the first
RECURSIVE iterable_dims_descending(_, _)
iterable_dims_descending(dims, iterable) ==
    IF Len(dims) = 0 THEN <<>>
    ELSE iterable_dims_descending(Tail(dims), Tail(iterable))
         \o (IF Head(iterable) THEN <<Head(dims)>> ELSE <<>>)

\* iterable_dims = np.array(dims)[iterable_axes]
RECURSIVE iterable_dims(_, _)
iterable_dims(dims, iterable) ==
    IF Len(dims) = 0 THEN <<>>
    ELSE (IF Head(iterable) THEN <<Head(dims)>> ELSE <<>>)
         \o iterable_dims(Tail(dims), Tail(iterable))

\* self._iterator
BuildIterator(dims, iterable) ==
    product([ax \in 1..Len(dims) |->
                IF iterable[ax] THEN Range(dims[ax]) ELSE <<Colon>>])

\* self.shapes: shapes[i][j] = tuple(s[i][j] for s in sizes),
\* sizes = (nys, nxs) or (nzs, nys, nxs); the loops run over nxs
BuildShapes(ns) ==
    Bind(Reverse(ns), LAMBDA sizes :
        [i \in 1..Len(ns[1]) |->
           [j \in 1..Len(ns[1][i]) |-> [a \in 1..Len(sizes) |-> sizes[a][i][j]]]])

\* self._output_len = sum(np.prod(j) for i in self.shapes for j in i)
OutputLen(shapes) ==
    Sum(ConcatAll([i \in 1..Len(shapes) |->
                      [j \in 1..Len(shapes[i]) |-> Prod(shapes[i][j])]]))

\* nbscales = int(np.ceil(np.log2(min(self._input_shape)) - 3))
DefaultNbscales(input_shape) == CeilLog2(MinOf(input_shape)) - 3

\* the part of __init__ after the native parameter query returned ns
InitOperator(dims, axes, input_shape, nbscales, nbangles_coarse, allcurvelets, dtype, ns) ==
    Bind(iterable_axes(Len(dims), axes), LAMBDA iterable :
    Bind(iterable_dims(dims, iterable), LAMBDA itdims :
    Bind(BuildShapes(ns), LAMBDA shapes :
    Bind(OutputLen(shapes), LAMBDA output_len :
        [status |-> "ok", error |-> "",
         input_shape |-> input_shape, fdim |-> Len(axes),
         shapes |-> shapes, output_len |-> output_len,
         ndim_iterable |-> Prod(itdims),
         iterator |-> BuildIterator(dims, iterable),
         inpdims |-> dims, axes |-> axes, nbscales |-> nbscales,
         nbangles_coarse |-> nbangles_coarse,
         allcurvelets |-> allcurvelets, cpx |-> TRUE,
         dtype |-> dtype, dims |-> dims, dimsd |-> itdims \o <<output_len>>,
         shape |-> <<Prod(itdims \o <<output_len>>), Prod(dims)>>,
         native |-> <<ParamQuery(input_shape, nbscales, nbangles_coarse,
                                 allcurvelets)>>]))))

\* a dimension check that only rejects fewer than 2 axes
InitDimension_any_arity(dims, axes, input_shape, nbscales, nbangles_coarse, allcurvelets, dtype) ==
    IF Len(axes) < 2
    THEN NoOperator("error", "NotImplementedError")
    ELSE Bind(fdct_param_wrap(input_shape, nbscales, nbangles_coarse, allcurvelets),
              LAMBDA par :
                 IF ~par.ok \/ ~IsComplexFloating(dtype)
                 THEN RaisedAfterQuery(
                          IF ~par.ok THEN par.err ELSE "NotImplementedError",
                          ParamQuery(input_shape, nbscales, nbangles_coarse,
                                     allcurvelets))
                 ELSE InitOperator(dims, axes, input_shape, nbscales,
                                   nbangles_coarse, allcurvelets, dtype, par.ns))

\* the part of __init__ after the axes were normalized and nbscales was set
InitDimension(dims, axes, input_shape, nbscales, nbangles_coarse, allcurvelets, dtype) ==
    IF Len(axes) \notin {2, 3}
    THEN NoOperator("error", "NotImplementedError")
    ELSE Bind(fdct_param_wrap(input_shape, nbscales, nbangles_coarse, allcurvelets),
              LAMBDA par :
                 IF ~par.ok \/ ~IsComplexFloating(dtype)
                 THEN RaisedAfterQuery(
                          IF ~par.ok THEN par.err ELSE "NotImplementedError",
                          ParamQuery(input_shape, nbscales, nbangles_coarse,
                                     allcurvelets))
                 ELSE InitOperator(dims, axes, input_shape, nbscales,
                                   nbangles_coarse, allcurvelets, dtype, par.ns))

FDCT_init(dims, axes_in, nbscales_in, nbangles_coarse, allcurvelets, dtype) ==
    Bind([k \in 1..Len(axes_in) |-> normalize_axis_index(axes_in[k], Len(dims))],
         LAMBDA axes :
    IF \E k \in 1..Len(axes) : axes[k] = AxisError
    THEN NoOperator("error", "AxisError")
    ELSE Bind([k \in 1..Len(axes) |-> dims[axes[k] + 1]], LAMBDA input_shape :
         IF nbscales_in = None /\ Len(input_shape) = 0
         THEN NoOperator("error", "ValueError")
         ELSE InitDimension(dims, axes, input_shape,
                            IF nbscales_in = None THEN DefaultNbscales(input_shape)
                            ELSE nbscales_in,
                            nbangles_coarse, allcurvelets, dtype)))

(***************************************************************************)
(* FDCT2D.__init__ and FDCT3D.__init__                                     *)
(***************************************************************************)
\* axes: Tuple[int, ...] = (-2, -1)
FDCT2D_axes == <<-2, -1>>

\* axes: Tuple[int, ...] = (-3, -2, -1)
FDCT3D_axes == <<-3, -2, -1>>

\* an FDCT2D that hands any number of axes to the base constructor
FDCT2D_init_unchecked(dims, axes, nbscales, nbangles_coarse, allcurvelets, dtype) ==
    FDCT_init(dims, axes, nbscales, nbangles_coarse, allcurvelets, dtype)

FDCT2D_init(dims, axes, nbscales, nbangles_coarse, allcurvelets, dtype) ==
    IF Len(axes) # 2 THEN NoOperator("error", "ValueError")
    ELSE FDCT_init(dims, axes, nbscales, nbangles_coarse, allcurvelets, dtype)

FDCT3D_init(dims, axes, nbscales, nbangles_coarse, allcurvelets, dtype) ==
    IF Len(axes) # 3 THEN NoOperator("error", "ValueError")
    ELSE FDCT_init(dims, axes, nbscales, nbangles_coarse, allcurvelets, dtype)

(***************************************************************************)
(* FDCT.struct and FDCT.vect                                               *)
(***************************************************************************)
\* x[k : k + size]
Slice(x, k, size) == SubSeq(x, k + 1, IF k + size < Len(x) THEN k + size ELSE Len(x))

\* the inner loop of struct over the wedges j.. of one scale, cursor at k
RECURSIVE StructAngles(_, _, _, _)
StructAngles(shapes_i, x, k, j) ==
    IF j > Len(shapes_i) THEN [ok |-> TRUE, angles |-> <<>>, k |-> k]
    ELSE Bind(Prod(shapes_i[j]), LAMBDA size :
         IF Len(Slice(x, k, size)) # size
         THEN [ok |-> FALSE, angles |-> <<>>, k |-> k]
         ELSE Bind(StructAngles(shapes_i, x, k + size, j + 1), LAMBDA rest :
                 [ok |-> rest.ok,
                  angles |-> <<reshape(Slice(x, k, size), shapes_i[j])>>
                             \o rest.angles,
                  k |-> rest.k]))

\* the outer loop of struct over the scales i.. , cursor at k
RECURSIVE StructScales(_, _, _, _)
StructScales(shapes, x, k, i) ==
    IF i > Len(shapes) THEN [ok |-> TRUE, val |-> <<>>, k |-> k]
    ELSE Bind(StructAngles(shapes[i], x, k, 1), LAMBDA angles :
         IF ~angles.ok THEN [ok |-> FALSE, val |-> <<>>, k |-> angles.k]
         ELSE Bind(StructScales(shapes, x, angles.k, i + 1), LAMBDA rest :
                 [ok |-> rest.ok, val |-> <<angles.angles>> \o rest.val,
                  k |-> rest.k]))

\* a struct that consumes the vector from the last scale to the first
struct_scales_descending(shapes, x) ==
    Bind(StructScales(Reverse(shapes), x, 0, 1), LAMBDA r :
        [ok |-> r.ok, err |-> IF r.ok THEN "" ELSE "ValueError",
         val |-> IF r.ok THEN Reverse(r.val) ELSE <<>>, native |-> <<>>])

\* FDCT.struct: x[k : k + size].reshape(shape) raises ValueError on a short slice
struct(shapes, x) ==
    Bind(StructScales(shapes, x, 0, 1), LAMBDA r :
        [ok |-> r.ok, err |-> IF r.ok THEN "" ELSE "ValueError",
         val |-> IF r.ok THEN r.val ELSE <<>>, native |-> <<>>])

\* a vect that concatenates the leaves from the last to the first
vect_reversed(c_struct) ==
    Bind(Reverse(ConcatAll(c_struct)), LAMBDA leaves :
        IF Len(leaves) = 0
        THEN [ok |-> FALSE, err |-> "ValueError", val |-> <<>>, native |-> <<>>]
        ELSE [ok |-> TRUE, err |-> "",
              val |-> ConcatAll([n \in 1..Len(leaves) |-> ravel(leaves[n])]),
              native |-> <<>>])

\* FDCT.vect: np.concatenate raises ValueError on an empty list
vect(c_struct) ==
    Bind(ConcatAll(c_struct), LAMBDA leaves :
        IF Len(leaves) = 0
        THEN [ok |-> FALSE, err |-> "ValueError", val |-> <<>>, native |-> <<>>]
        ELSE [ok |-> TRUE, err |-> "",
              val |-> ConcatAll([n \in 1..Len(leaves) |-> ravel(leaves[n])]),
              native |-> <<>>])

(***************************************************************************)
(* FDCT._matvec and FDCT._rmatvec                                          *)
(***************************************************************************)
Raised(r, val) == [ok |-> FALSE, err |-> r.err, val |-> val]

\* the result r of a step together with the native calls the step made
WithNative(r, native) ==
    [ok |-> r.ok, err |-> r.err, val |-> r.val, native |-> native]

\* the native call of iteration i (1-based) of _matvec: self.fdct(self.nbscales,
\* self.nbangles_coarse, self.allcurvelets, <the slice at self._iterator[i]>)
ForwardCall(self, i) ==
    NativeCall("forward", self.fdim,
               <<self.nbscales, self.nbangles_coarse, self.allcurvelets,
                 self.iterator[i]>>)

\* a loop body that stores the coefficients of every slice in the first column
MatvecIteration_first_column(self, x_nd, fwd_out, i) ==
    Bind(fdct_forward_wrap(self.fdim, self.nbscales, self.nbangles_coarse,
                           self.allcurvelets, GetItem(x_nd, self.iterator[i])),
         LAMBDA c_struct :
    WithNative(
        IF ~c_struct.ok THEN Raised(c_struct, fwd_out)
        ELSE Bind(vect(c_struct.val), LAMBDA v :
                IF ~v.ok THEN Raised(v, fwd_out)
                ELSE SetItem(fwd_out, <<Colon, 0>>,
                             Array(<<Len(v.val)>>, v.val))),
        <<ForwardCall(self, i)>>))

\* the body of the loop of _matvec: iteration i (1-based) on accumulator fwd_out
MatvecIteration(self, x_nd, fwd_out, i) ==
    Bind(fdct_forward_wrap(self.fdim, self.nbscales, self.nbangles_coarse,
                           self.allcurvelets, GetItem(x_nd, self.iterator[i])),
         LAMBDA c_struct :
    WithNative(
        IF ~c_struct.ok THEN Raised(c_struct, fwd_out)
        ELSE Bind(vect(c_struct.val), LAMBDA v :
                IF ~v.ok THEN Raised(v, fwd_out)
                ELSE SetItem(fwd_out, <<Colon, i - 1>>,
                             Array(<<Len(v.val)>>, v.val))),
        <<ForwardCall(self, i)>>))

\* the result of a loop whose iteration r succeeded: that of the iterations
\* after it, with the native calls of both
LoopResult(r, rest) == WithNative(rest, r.native \o rest.native)

\* a loop that runs its body for the first batch index only
MatvecLoop_first_only(self, x_nd, fwd_out, i) ==
    MatvecIteration(self, x_nd, fwd_out, 1)

\* the loop of _matvec from iteration i (1-based) with accumulator fwd_out
RECURSIVE MatvecLoop(_, _, _, _)
MatvecLoop(self, x_nd, fwd_out, i) ==
    IF i > Len(self.iterator)
    THEN [ok |-> TRUE, err |-> "", val |-> fwd_out, native |-> <<>>]
    ELSE Bind(MatvecIteration(self, x_nd, fwd_out, i), LAMBDA r :
            IF r.ok THEN LoopResult(r, MatvecLoop(self, x_nd, r.val, i + 1))
            ELSE r)

\* what a call returns: the loop's output ravelled, or the exception
Returned(r) ==
    [ok |-> r.ok, err |-> r.err, val |-> IF r.ok THEN ravel(r.val) ELSE <<>>,
     native |-> r.native]

\* a forward that adds 1 to every element of its output
_matvec_offset(self, x) ==
    Bind(Returned(MatvecLoop(self, reshape(x, self.inpdims),
                             zeros(<<self.output_len, self.ndim_iterable>>), 1)),
         LAMBDA r :
            [r EXCEPT !.val = [k \in 1..Len(r.val) |-> CAdd(r.val[k], <<1, 0>>)]])

_matvec(self, x) ==
    Returned(MatvecLoop(self, reshape(x, self.inpdims),
                        zeros(<<self.output_len, self.ndim_iterable>>), 1))

\* the native call of iteration i (1-based) of _rmatvec:
\* self.ifdct(*self._input_shape, self.nbscales, self.nbangles_coarse,
\* self.allcurvelets, <the struct of column i - 1>)
InverseCall(self, i) ==
    NativeCall("inverse", self.fdim,
               self.input_shape
               \o <<self.nbscales, self.nbangles_coarse, self.allcurvelets, i - 1>>)

\* the body of the loop of _rmatvec: iteration i (1-based) on output inv_out
RmatvecIteration(self, y_shaped, inv_out, i) ==
    Bind(struct(self.shapes, ravel(GetItem(y_shaped, <<Colon, i - 1>>))),
         LAMBDA y_struct :
    IF ~y_struct.ok THEN WithNative(Raised(y_struct, inv_out), <<>>)
    ELSE
    Bind(fdct_inverse_wrap(self.fdim, self.input_shape, self.nbscales,
                           self.nbangles_coarse, self.allcurvelets, y_struct.val),
         LAMBDA xinv :
    WithNative(IF ~xinv.ok THEN Raised(xinv, inv_out)
               ELSE SetItem(inv_out, self.iterator[i], xinv.val),
               <<InverseCall(self, i)>>)))

\* the loop of _rmatvec from iteration i (1-based) with output inv_out
RECURSIVE RmatvecLoop(_, _, _, _)
RmatvecLoop(self, y_shaped, inv_out, i) ==
    IF i > Len(self.iterator)
    THEN [ok |-> TRUE, err |-> "", val |-> inv_out, native |-> <<>>]
    ELSE Bind(RmatvecIteration(self, y_shaped, inv_out, i), LAMBDA r :
            IF r.ok THEN LoopResult(r, RmatvecLoop(self, y_shaped, r.val, i + 1))
            ELSE r)

\* an inverse that walks the batch indices in the opposite order
_rmatvec_reversed(self, y) ==
    IF Len(y) # self.output_len * self.ndim_iterable
    THEN [ok |-> FALSE, err |-> "ValueError", val |-> <<>>, native |-> <<>>]
    ELSE Returned(RmatvecLoop([self EXCEPT !.iterator = Reverse(@)],
                              reshape(y, <<self.output_len, self.ndim_iterable>>),
                              zeros(self.inpdims), 1))

_rmatvec(self, y) ==
    IF Len(y) # self.output_len * self.ndim_iterable
    THEN [ok |-> FALSE, err |-> "ValueError", val |-> <<>>, native |-> <<>>]
    ELSE Returned(RmatvecLoop(self,
                              reshape(y, <<self.output_len, self.ndim_iterable>>),
                              zeros(self.inpdims), 1))

\* an inverse method that walks the batch indices in the opposite order
inverse_reversed(self, x) == _rmatvec_reversed(self, x)

\* FDCT.inverse
inverse(self, x) == _rmatvec(self, x)

(***************************************************************************)
(* NumPy memory: buffers, and arrays as views of buffers                   *)
(***************************************************************************)
\* the array of the given shape whose element at row-major position p
\* (0-based) is element offset + p * stride of buffer base
View(base, offset, stride, shape) ==
    [base |-> base, offset |-> offset, stride |-> stride, shape |-> shape]

\* a 1-D array that owns buffer base of n elements
Contiguous(base, n) == View(base, 0, 1, <<n>>)

\* the place (1-based) in its buffer of the element at position p of a view
Address(view, p) == view.offset + p * view.stride + 1

\* the elements of a view in row-major order
ViewRead(heap, view) ==
    [p \in 1..Prod(view.shape) |-> heap[view.base][Address(view, p - 1)]]

\* view.flat[p] = val
ViewWrite(heap, view, p, val) ==
    [heap EXCEPT ![view.base][Address(view, p)] = val]

\* np.array, np.zeros and np.concatenate return an array that owns a new
\* buffer; the buffer is the last of the heap
Allocate(heap, data) == Append(heap, data)

\* x[k : k + size] of a 1-D array: a view of the buffer of x, cut at its end
SliceView(x, k, size) ==
    View(x.base, x.offset + k * x.stride, x.stride,
         <<IF k + size <= x.shape[1] THEN size
           ELSE IF k < x.shape[1] THEN x.shape[1] - k ELSE 0>>)

\* a.reshape(shape) of a 1-D array: a view of the same elements
ReshapeView(a, shape) == [a EXCEPT !.shape = shape]

\* the inner loop of struct over the wedges j.. of one scale, on views
RECURSIVE StructViewAngles(_, _, _, _)
StructViewAngles(shapes_i, x, k, j) ==
    IF j > Len(shapes_i) THEN [ok |-> TRUE, angles |-> <<>>, k |-> k]
    ELSE Bind(Prod(shapes_i[j]), LAMBDA size :
         IF SliceView(x, k, size).shape[1] # size
         THEN [ok |-> FALSE, angles |-> <<>>, k |-> k]
         ELSE Bind(StructViewAngles(shapes_i, x, k + size, j + 1), LAMBDA rest :
                 [ok |-> rest.ok,
                  angles |-> <<ReshapeView(SliceView(x, k, size), shapes_i[j])>>
                             \o rest.angles,
                  k |-> rest.k]))

\* the outer loop of struct over the scales i.. , on views
RECURSIVE StructViewScales(_, _, _, _)
StructViewScales(shapes, x, k, i) ==
    IF i > Len(shapes) THEN [ok |-> TRUE, val |-> <<>>, k |-> k]
    ELSE Bind(StructViewAngles(shapes[i], x, k, 1), LAMBDA angles :
         IF ~angles.ok THEN [ok |-> FALSE, val |-> <<>>, k |-> angles.k]
         ELSE Bind(StructViewScales(shapes, x, angles.k, i + 1), LAMBDA rest :
                 [ok |-> rest.ok, val |-> <<angles.angles>> \o rest.val,
                  k |-> rest.k]))

\* a struct whose leaves view a copy of x
struct_views_of_copy(heap, shapes, x) ==
    Bind(StructViewScales(shapes, Contiguous(Len(heap) + 1, x.shape[1]), 0, 1),
         LAMBDA r :
            [ok |-> r.ok, err |-> IF r.ok THEN "" ELSE "ValueError",
             heap |-> Allocate(heap, ViewRead(heap, x)),
             val |-> IF r.ok THEN r.val ELSE <<>>])

\* FDCT.struct on the array x: slicing and reshaping allocate nothing
struct_views(heap, shapes, x) ==
    Bind(StructViewScales(shapes, x, 0, 1), LAMBDA r :
        [ok |-> r.ok, err |-> IF r.ok THEN "" ELSE "ValueError",
         heap |-> heap, val |-> IF r.ok THEN r.val ELSE <<>>])

\* FDCT.vect on leaves that are views: np.concatenate copies the ravelled
\* leaves into a new buffer
vect_views(heap, c_struct) ==
    Bind(ConcatAll(c_struct), LAMBDA leaves :
        IF Len(leaves) = 0
        THEN [ok |-> FALSE, err |-> "ValueError", heap |-> heap,
              val |-> Contiguous(0, 0)]
        ELSE Bind(ConcatAll([n \in 1..Len(leaves) |-> ViewRead(heap, leaves[n])]),
                  LAMBDA data :
                     [ok |-> TRUE, err |-> "", heap |-> Allocate(heap, data),
                      val |-> Contiguous(Len(heap) + 1, Len(data))]))

\* no write of the native inverse to the struct it is handed
NoWrite == [col |-> 0, scale |-> 0, wedge |-> 0, pos |-> 0]

\* the loop of _rmatvec from iteration i (1-based) on buffers: y_shaped[:, i - 1]
\* views every ndim_iterable-th element of y, np.array copies it and struct
\* cuts the copy; the native inverse, compiled code, may write the struct it
\* is handed: at iteration w.col it writes element w.pos of leaf
\* [w.scale][w.wedge]
RECURSIVE RmatvecViewLoop(_, _, _, _, _, _)
RmatvecViewLoop(self, heap, y, i, w, structs) ==
    IF i > Len(self.iterator) THEN [heap |-> heap, structs |-> structs]
    ELSE Bind(Allocate(heap,
                       ViewRead(heap,
                                View(y.base, y.offset + (i - 1) * y.stride,
                                     self.ndim_iterable * y.stride,
                                     <<self.output_len>>))),
              LAMBDA copied :
         Bind(struct_views(copied, self.shapes,
                           Contiguous(Len(copied), self.output_len)),
              LAMBDA y_struct :
                 RmatvecViewLoop(
                     self,
                     IF w.col = i /\ y_struct.ok
                     THEN ViewWrite(y_struct.heap,
                                    y_struct.val[w.scale][w.wedge], w.pos, Zero)
                     ELSE y_struct.heap,
                     y, i + 1, w, Append(structs, y_struct.val))))

\* FDCT._rmatvec on buffers: inv_out is a new array and the result views it
_rmatvec_views(self, heap, y, w) ==
    Bind(RmatvecViewLoop(self, Allocate(heap, zeros(self.inpdims).data), y, 1,
                         w, <<>>),
         LAMBDA r :
            [heap |-> [r.heap EXCEPT ![Len(heap) + 1]
                                        = _rmatvec(self, ViewRead(heap, y)).val],
             structs |-> r.structs,
             val |-> Contiguous(Len(heap) + 1, Prod(self.inpdims))])

(***************************************************************************)
(* curvelops.utils: apply_along_wedges                                     *)
(***************************************************************************)
\* the elementwise map f of a callback, on one complex number
Elementwise(f, z) ==
    IF f = "add_one" THEN CAdd(z, <<1, 0>>)
    ELSE IF f = "times_i" THEN CMul(<<0, 1>>, z)
    ELSE Conj(z)

\* the callbacks that map a wedge element by element, as `lambda c, w, s, na,
\* ns: c + 1.0` does
ElementwiseFuns == {"add_one", "times_i", "conj"}

\* fun(c_wedge, iwedge, iscale, nangles, nscales): an elementwise map of the
\* wedge, the shape of the wedge (`lambda w, *_: w.shape`), or the four integer
\* arguments
Fun(fun, c_wedge, iwedge, iscale, nangles, nscales) ==
    IF fun \in ElementwiseFuns
    THEN Array(c_wedge.shape,
               [k \in 1..Len(c_wedge.data) |-> Elementwise(fun, c_wedge.data[k])])
    ELSE IF fun = "shape" THEN c_wedge.shape
    ELSE <<iwedge, iscale, nangles, nscales>>

\* the arguments of one call of fun
FunCall(c_wedge, iwedge, iscale, nangles, nscales) ==
    [c_wedge |-> c_wedge, iwedge |-> iwedge, iscale |-> iscale,
     nangles |-> nangles, nscales |-> nscales]

\* the inner loop over the wedges iwedge.. (0-based) of scale iscale: the list
\* mapped_struct[iscale] after the appends, and the calls of fun made
RECURSIVE AlongAngles(_, _, _, _, _)
AlongAngles(c_struct, fun, iscale, iwedge, mapped) ==
    Bind(c_struct[iscale + 1], LAMBDA c_angles :
        IF iwedge >= Len(c_angles) THEN [mapped |-> mapped, calls |-> <<>>]
        ELSE Bind(AlongAngles(c_struct, fun, iscale, iwedge + 1,
                              Append(mapped,
                                     Fun(fun, c_angles[iwedge + 1], iwedge, iscale,
                                         Len(c_angles), Len(c_struct)))),
                  LAMBDA rest :
                     [mapped |-> rest.mapped,
                      calls |-> <<FunCall(c_angles[iwedge + 1], iwedge, iscale,
                                          Len(c_angles), Len(c_struct))>>
                                \o rest.calls]))

\* the outer loop over the scales iscale.. (0-based) on mapped_struct
RECURSIVE AlongScales(_, _, _, _)
AlongScales(c_struct, fun, iscale, mapped_struct) ==
    IF iscale >= Len(c_struct) THEN [mapped_struct |-> mapped_struct, calls |-> <<>>]
    ELSE Bind(AlongAngles(c_struct, fun, iscale, 0, <<>>), LAMBDA angles :
         Bind(AlongScales(c_struct, fun, iscale + 1,
                          [mapped_struct EXCEPT ![iscale + 1] = angles.mapped]),
              LAMBDA rest :
                 [mapped_struct |-> rest.mapped_struct,
                  calls |-> angles.calls \o rest.calls]))

\* an apply_along_wedges that hands fun the scale index as the wedge index and
\* the wedge index as the scale index
apply_along_wedges_swapped(c_struct, fun) ==
    Bind(AlongScales(c_struct, fun, 0, [s \in 1..Len(c_struct) |-> <<>>]), LAMBDA r :
        [val |-> [s \in 1..Len(c_struct) |->
                    [w \in 1..Len(c_struct[s]) |->
                        Fun(fun, c_struct[s][w], s - 1, w - 1, Len(c_struct[s]),
                            Len(c_struct))]],
         calls |-> [n \in 1..Len(r.calls) |->
                      FunCall(r.calls[n].c_wedge, r.calls[n].iscale,
                              r.calls[n].iwedge, r.calls[n].nangles,
                              r.calls[n].nscales)],
         c_struct |-> c_struct])

\* an apply_along_wedges that stores the results of a scale from the last
\* wedge to the first
apply_along_wedges_reversed(c_struct, fun) ==
    Bind(AlongScales(c_struct, fun, 0, [s \in 1..Len(c_struct) |-> <<>>]), LAMBDA r :
        [val |-> [s \in 1..Len(c_struct) |-> Reverse(r.mapped_struct[s])],
         calls |-> r.calls, c_struct |-> c_struct])

\* apply_along_wedges(c_struct, fun): mapped_struct, the calls of fun in the
\* order made, and c_struct as the call leaves it
apply_along_wedges(c_struct, fun) ==
    Bind(AlongScales(c_struct, fun, 0, [s \in 1..Len(c_struct) |-> <<>>]), LAMBDA r :
        [val |-> r.mapped_struct, calls |-> r.calls, c_struct |-> c_struct])

(***************************************************************************)
(* curvelops.utils: array_split_nd, split_nd and energy_split              *)
(***************************************************************************)
\* sary[st:end] along the given axis (0-based), all of every other axis
TakeRange(ary, axis, st, end) ==
    Bind(product([q \in 1..Len(ary.shape) |->
                     IF q = axis + 1 THEN [t \in 1..(end - st) |-> st + t - 1]
                     ELSE Range(ary.shape[q])]),
         LAMBDA sel :
            Array([q \in 1..Len(ary.shape) |->
                      IF q = axis + 1 THEN end - st ELSE ary.shape[q]],
                  [p \in 1..Len(sel) |-> ary.data[RavelIndex(sel[p], ary.shape) + 1]]))

\* section sizes with the larger sections last
SectionSizes_extras_last(Ntotal, Nsections) ==
    [i \in 1..Nsections |->
        IF i > Nsections - (Ntotal % Nsections) THEN (Ntotal \div Nsections) + 1
        ELSE Ntotal \div Nsections]

\* section_sizes of np.array_split without the leading 0: extras sections of
\* Neach_section + 1 elements, then sections of Neach_section elements
SectionSizes(Ntotal, Nsections) ==
    [i \in 1..Nsections |->
        IF i <= (Ntotal % Nsections) THEN (Ntotal \div Nsections) + 1
        ELSE Ntotal \div Nsections]

\* div_points = cumsum(section_sizes): div_points[i + 1] for i = 0..Nsections
DivPoint(sizes, i) == Sum(SubSeq(sizes, 1, i))

\* np.array_split(ary, Nsections, axis) for Nsections >= 1
array_split(ary, Nsections, axis) ==
    Bind(SectionSizes(ary.shape[axis + 1], Nsections), LAMBDA sizes :
        [i \in 1..Nsections |->
            TakeRange(ary, axis, DivPoint(sizes, i - 1), DivPoint(sizes, i))])

\* array_split_nd(ary, *args)
RECURSIVE array_split_nd(_, _)
array_split_nd(ary, args) ==
    Bind(array_split(ary, args[1], Len(ary.shape) - Len(args)), LAMBDA sub :
        IF Len(args) = 1 THEN sub
        ELSE [i \in 1..Len(sub) |-> array_split_nd(sub[i], Tail(args))])

\* np.split(ary, sections, axis): raises unless the axis divides evenly
split(ary, sections, axis) ==
    IF ary.shape[axis + 1] % sections # 0
    THEN [ok |-> FALSE, err |-> "ValueError", val |-> <<>>]
    ELSE [ok |-> TRUE, err |-> "", val |-> array_split(ary, sections, axis)]

\* a split_nd that splits unevenly instead of raising
split_nd_uneven(ary, args) ==
    [ok |-> TRUE, err |-> "", val |-> array_split_nd(ary, args)]

\* split_nd(ary, *args): the list comprehension raises what its first failing
\* element raises
RECURSIVE split_nd(_, _)
split_nd(ary, args) ==
    Bind(split(ary, args[1], Len(ary.shape) - Len(args)), LAMBDA s :
        IF ~s.ok \/ Len(args) = 1 THEN s
        ELSE Bind([i \in 1..Len(s.val) |-> split_nd(s.val[i], Tail(args))],
                  LAMBDA rec :
                     IF \E i \in 1..Len(rec) : ~rec[i].ok
                     THEN [ok |-> FALSE, err |-> "ValueError", val |-> <<>>]
                     ELSE [ok |-> TRUE, err |-> "",
                           val |-> [i \in 1..Len(rec) |-> rec[i].val]]))

\* energy(ary) without the square root: the sum of |a|^2 and the size it is
\* divided by (0 / 0 for an empty array)
energy(ary) ==
    <<Sum([k \in 1..Len(ary.data) |->
              ary.data[k][1] * ary.data[k][1] + ary.data[k][2] * ary.data[k][2]]),
      Len(ary.data)>>

\* energy_split(ary, rows, cols)
energy_split(ary, rows, cols) ==
    Bind(array_split_nd(ary, <<rows, cols>>), LAMBDA parts :
        [irow \in 1..rows |-> [icol \in 1..cols |-> energy(parts[irow][icol])]])

(***************************************************************************)
(* State: the arguments of the constructor call, the operator it built     *)
(* (or the error it raised), and the latest forward, inverse and codec     *)
(* calls on that operator with their inputs and results.                   *)
(***************************************************************************)
NoCall == [cls |-> "", dims |-> <<>>, axes_given |-> FALSE, axes |-> <<>>,
           nbscales |-> None, nbangles_coarse |-> 0, allcurvelets |-> FALSE,
           dtype |-> ""]

NoFwd == [status |-> "none", err |-> "", x |-> <<>>, y |-> <<>>, native |-> <<>>]

NoInv == [status |-> "none", err |-> "", y |-> <<>>, x |-> <<>>, of |-> "",
          native |-> <<>>]

NoCodec == [status |-> "none", err |-> "", v |-> <<>>, s |-> <<>>, flat |-> <<>>,
            s2 |-> <<>>, native |-> <<>>]

\* no dot test was run
NoDot == [status |-> "none", u |-> <<>>, v |-> <<>>, y |-> NoFwd, x |-> NoInv]

\* no forward of a linear combination was computed
NoLin == [status |-> "none", a |-> Zero, b |-> Zero, x1 |-> <<>>, x2 |-> <<>>,
          y1 |-> NoFwd, y2 |-> NoFwd, y |-> NoFwd]

\* the two callers that may use the operator at the same time
Callers == 1..2

\* a caller that has no call in progress
NoRun == [kind |-> "none", status |-> "none", err |-> "", input |-> <<>>,
          todo |-> {}, acc |-> zeros(<<0>>), out |-> <<>>]

\* apply_along_wedges was not called
NoWedges == [status |-> "none", fun |-> "", c_struct |-> <<>>, mapped |-> <<>>,
             calls |-> <<>>, flat |-> <<>>, diff |-> <<>>]

\* neither array_split_nd nor split_nd was called
NoSplit == [status |-> "none", ary |-> zeros(<<0>>), args |-> <<>>,
            uneven |-> <<>>, even |-> <<>>, err |-> "", energy |-> <<>>]

\* no buffer was allocated
NoMem == [status |-> "none", heap |-> <<>>, before |-> <<>>,
          v |-> Contiguous(0, 0), leaves |-> <<>>, flat |-> Contiguous(0, 0),
          y |-> Contiguous(0, 0), structs |-> <<>>, xinv |-> Contiguous(0, 0),
          written |-> NoWrite]

Init ==
    /\ call = NoCall
    /\ op = NoOperator("none", "")
    /\ fwd = NoFwd
    /\ inv = NoInv
    /\ codec = NoCodec
    /\ invcall = NoInv
    /\ dot = NoDot
    /\ lin = NoLin
    /\ run = [t \in Callers |-> NoRun]
    /\ wedges = NoWedges
    /\ cut = NoSplit
    /\ mem = NoMem

\* the record of a forward call on x that ended as r
FwdResult(x, r) ==
    [status |-> IF r.ok THEN "ok" ELSE "error", err |-> r.err, x |-> x, y |-> r.val,
     native |-> r.native]

\* the record of an inverse call on y that ended as r
InvResult(y, r, of) ==
    [status |-> IF r.ok THEN "ok" ELSE "error", err |-> r.err, y |-> y,
     x |-> r.val, of |-> of, native |-> r.native]

\* the record of the codec call that ended as r and, when it succeeded, moved
\* the codec to the given stage
CodecResult(c, stage, r) ==
    [c EXCEPT !.status = IF r.ok THEN stage ELSE "error",
              !.err = r.err,
              !.s = IF stage = "struct" THEN r.val ELSE @,
              !.flat = IF stage = "vect" THEN r.val ELSE @,
              !.s2 = IF stage = "restruct" THEN r.val ELSE @,
              !.native = @ \o r.native]

\* complex vectors of length n: the constant 1, every vector that is 1 except
\* for one of the first MaxDim elements, and one vector whose elements are
\* pairwise different
VectorInputs(n) ==
    {[k \in 1..n |-> IF k = m THEN <<0, 1>> ELSE <<1, 0>>] :
        m \in 0..MinOf(<<n, MaxDim>>)}
    \cup {[k \in 1..n |-> <<k, n - k>>]}

\* input shapes of rank r
DimsOfRank(r) == {d \in [1..r -> 1..MaxDim] : Prod(d) <= MaxCols}

\* axes of a well-formed call: 2 or 3 distinct axes in [0, ndim), in any order
ApplyAxes(ndim) ==
    {a \in UNION {[1..n -> 0..(ndim - 1)] : n \in 2..3} :
        \A k, l \in 1..Len(a) : k # l => a[k] # a[l]}

\* axes of any call: up to 3 axes, each possibly negative or out of range by one,
\* and longer lists of in-range axes
AnyAxes(ndim) ==
    UNION {[1..n -> (-(ndim + 1))..ndim] : n \in 0..3}
    \cup UNION {[1..n -> 0..(ndim - 1)] : n \in 4..MaxAxes}

\* FDCT(dims, axes, nbscales, nbangles_coarse, allcurvelets, dtype)
Construct(dims, axes, nbscales, nbangles_coarse, allcurvelets, dtype) ==
    /\ call' = [cls |-> "FDCT", dims |-> dims, axes_given |-> TRUE, axes |-> axes,
                nbscales |-> nbscales, nbangles_coarse |-> nbangles_coarse,
                allcurvelets |-> allcurvelets, dtype |-> dtype]
    /\ op' = FDCT_init(dims, axes, nbscales, nbangles_coarse, allcurvelets, dtype)
    /\ UNCHANGED <<fwd, inv, codec, invcall, dot, lin, run, wedges, cut, mem>>

\* nbscales and allcurvelets of a well-formed call: every number of scales with
\* curvelets at the finest scale, and the largest with wavelets there
ApplyOptions ==
    {<<nbscales, TRUE>> : nbscales \in 1..MaxScales} \cup {<<MaxScales, FALSE>>}

ConstructApply ==
    /\ op.status = "none"
    /\ \E r \in 2..MaxRank : \E dims \in DimsOfRank(r) : \E axes \in ApplyAxes(r) :
       \E o \in ApplyOptions :
          Construct(dims, axes, o[1], MaxAngles, o[2], "complex128")

\* element types of a call: complex floating, real floating and integer
DTypes == {"complex128", "float64", "int64"}

\* input shapes of rank r of a call: the small shapes, and the shapes with an
\* extent large enough for the default number of scales to be positive
InitDims(r) ==
    DimsOfRank(r)
    \cup {d \in [1..r -> {MaxDim, LargeDim}] : \E k \in 1..r : d[k] = LargeDim}

\* nbscales, allcurvelets and dtype of a call: every number of scales and the
\* default with wavelets or curvelets at the finest scale, and the element
\* types that are not complex with one scale and with the default
InitOptions ==
    {<<nbscales, allcurvelets, "complex128">> :
        nbscales \in {None} \cup 1..MaxScales, allcurvelets \in {TRUE}}
    \cup {<<1, FALSE, "complex128">>}
    \cup {<<nbscales, TRUE, dtype>> :
            nbscales \in {None, 1}, dtype \in DTypes \ {"complex128"}}

ConstructAny ==
    /\ op.status = "none"
    /\ \E r \in 1..MaxInitRank : \E dims \in InitDims(r) : \E axes \in AnyAxes(r) :
       \E o \in InitOptions :
          Construct(dims, axes, o[1], MaxAngles, o[2], o[3])

\* axes given to a preset: up to 3 axes in [-ndim, ndim), and longer lists of
\* axes in [0, ndim)
PresetAxes(ndim) ==
    UNION {[1..n -> (-ndim)..(ndim - 1)] : n \in 0..3}
    \cup UNION {[1..n -> 0..(ndim - 1)] : n \in 4..MaxAxes}

\* FDCT2D(dims, axes, ...) or FDCT3D(dims, axes, ...), axes given or omitted
ConstructPreset ==
    /\ op.status = "none"
    /\ \E cls \in {"FDCT2D", "FDCT3D"} : \E r \in 1..MaxInitRank :
       \E dims \in InitDims(r) : \E given \in BOOLEAN :
       \E axes \in (IF given THEN PresetAxes(r)
                    ELSE IF cls = "FDCT2D" THEN {FDCT2D_axes} ELSE {FDCT3D_axes}) :
       \E nbscales \in {None, 1} :
       \E dtype \in (IF nbscales = 1 THEN DTypes ELSE {"complex128"}) :
          /\ call' = [cls |-> cls, dims |-> dims, axes_given |-> given,
                      axes |-> axes, nbscales |-> nbscales,
                      nbangles_coarse |-> MaxAngles, allcurvelets |-> TRUE,
                      dtype |-> dtype]
          /\ op' = IF cls = "FDCT2D"
                   THEN FDCT2D_init(dims, axes, nbscales, MaxAngles, TRUE, dtype)
                   ELSE FDCT3D_init(dims, axes, nbscales, MaxAngles, TRUE, dtype)
          /\ UNCHANGED <<fwd, inv, codec, invcall, dot, lin, run, wedges, cut, mem>>

\* y = op * x
Matvec ==
    /\ op.status = "ok"
    /\ fwd.status = "none" /\ inv.status = "none" /\ codec.status = "none"
    /\ \E x \in VectorInputs(op.shape[2]) : fwd' = FwdResult(x, _matvec(op, x))
    /\ UNCHANGED <<call, op, inv, codec, invcall, dot, lin, run, wedges, cut, mem>>

\* xinv = op.H * y for the y the forward call returned
RmatvecOfForward ==
    /\ op.status = "ok"
    /\ fwd.status = "ok" /\ inv.status = "none"
    /\ inv' = InvResult(fwd.y, _rmatvec(op, fwd.y), "forward")
    /\ UNCHANGED <<call, op, fwd, codec, invcall, dot, lin, run, wedges, cut, mem>>

\* xinv = op.H * y for a coefficient vector y of the caller
RmatvecOfVector ==
    /\ op.status = "ok"
    /\ fwd.status = "none" /\ inv.status = "none" /\ codec.status = "none"
    /\ \E y \in VectorInputs(op.shape[1]) :
          inv' = InvResult(y, _rmatvec(op, y), "vector")
    /\ UNCHANGED <<call, op, fwd, codec, invcall, dot, lin, run, wedges, cut, mem>>

\* s = op.struct(v)
Struct ==
    /\ op.status = "ok"
    /\ fwd.status = "none" /\ inv.status = "none" /\ codec.status = "none"
    /\ \E v \in VectorInputs(op.output_len) :
          codec' = CodecResult([NoCodec EXCEPT !.v = v], "struct",
                               struct(op.shapes, v))
    /\ UNCHANGED <<call, op, fwd, inv, invcall, dot, lin, run, wedges, cut, mem>>

\* flat = op.vect(s)
Vect ==
    /\ codec.status = "struct"
    /\ codec' = CodecResult(codec, "vect", vect(codec.s))
    /\ UNCHANGED <<call, op, fwd, inv, invcall, dot, lin, run, wedges, cut, mem>>

\* s2 = op.struct(flat)
StructOfVect ==
    /\ codec.status = "vect"
    /\ codec' = CodecResult(codec, "restruct", struct(op.shapes, codec.flat))
    /\ UNCHANGED <<call, op, fwd, inv, invcall, dot, lin, run, wedges, cut, mem>>

Next ==
    \/ ConstructApply
    \/ Matvec
    \/ RmatvecOfForward
    \/ RmatvecOfVector
    \/ Struct
    \/ Vect
    \/ StructOfVect

Spec == Init /\ [][Next]_vars

\* op.inverse(y) for the coefficient vector y that op.H was applied to
InverseOfVector ==
    /\ inv.of = "vector"
    /\ invcall.status = "none"
    /\ invcall' = InvResult(inv.y, inverse(op, inv.y), "inverse")
    /\ UNCHANGED <<call, op, fwd, inv, codec, dot, lin, run, wedges, cut, mem>>

\* the adjoint and the inverse method applied to the same coefficient vectors
NextInverse ==
    \/ ConstructApply
    \/ RmatvecOfVector
    \/ InverseOfVector

SpecInverse == Init /\ [][NextInverse]_vars

\* dottest(op, *op.shape, complexflag=3): y = op * u and x = op.H * v for
\* vectors u of length cols and v of length rows
DotTest ==
    /\ op.status = "ok"
    /\ dot.status = "none"
    /\ \E u \in VectorInputs(op.shape[2]) : \E v \in VectorInputs(op.shape[1]) :
          dot' = [status |-> "done", u |-> u, v |-> v,
                  y |-> FwdResult(u, _matvec(op, u)),
                  x |-> InvResult(v, _rmatvec(op, v), "vector")]
    /\ UNCHANGED <<call, op, fwd, inv, codec, invcall, lin, run, wedges, cut, mem>>

\* the dot test on every operator
NextDot ==
    \/ ConstructApply
    \/ DotTest

SpecDot == Init /\ [][NextDot]_vars

\* FDCT(dims, axes, nbscales=1, nbangles_coarse): the coarsest scale alone
ConstructCoarse ==
    /\ op.status = "none"
    /\ \E r \in 2..MaxRank : \E dims \in DimsOfRank(r) : \E axes \in ApplyAxes(r) :
          Construct(dims, axes, 1, MaxAngles, TRUE, "complex128")

\* pairs of scalars (a, b): both zero, a real and an imaginary one, an
\* imaginary and a negative one
ScalarPairs ==
    {<<Zero, Zero>>, << <<2, 0>>, <<0, 1>> >>, << <<0, 1>>, <<-1, 0>> >>}

\* second inputs of length n: all ones, and pairwise different elements
SecondInputs(n) == {[k \in 1..n |-> <<1, 0>>], [k \in 1..n |-> <<k, n - k>>]}

\* the results of a forward on x1, on x2 and on a * x1 + b * x2
LinResult(a, b, x1, x2) ==
    [status |-> "done", a |-> a, b |-> b, x1 |-> x1, x2 |-> x2,
     y1 |-> FwdResult(x1, _matvec(op, x1)),
     y2 |-> FwdResult(x2, _matvec(op, x2)),
     y |-> FwdResult(Combine(a, x1, b, x2), _matvec(op, Combine(a, x1, b, x2)))]

\* op * x1, op * x2 and op * (a * x1 + b * x2)
MatvecOfCombination ==
    /\ op.status = "ok"
    /\ lin.status = "none"
    /\ \E x1 \in VectorInputs(op.shape[2]) : \E x2 \in SecondInputs(op.shape[2]) :
       \E ab \in ScalarPairs :
          lin' = LinResult(ab[1], ab[2], x1, x2)
    /\ UNCHANGED <<call, op, fwd, inv, codec, invcall, dot, run, wedges, cut, mem>>

\* the forward on linear combinations of inputs
NextLinear ==
    \/ ConstructCoarse
    \/ MatvecOfCombination

SpecLinear == Init /\ [][NextLinear]_vars

\* the input buffer of length n of caller t: pairwise different elements, and
\* different from the buffer of the other caller
RunInput(t, n) == [k \in 1..n |-> <<k + t - 1, n - k>>]

\* caller t enters _matvec: fwd_out = np.zeros((self._output_len,
\* self._ndim_iterable)), and the loop has every batch index to do
BeginMatvec ==
    /\ op.status = "ok"
    /\ \E t \in Callers :
          /\ run[t].status = "none"
          /\ \A u \in 1..(t - 1) : run[u].status # "none"
          /\ run' = [run EXCEPT ![t] =
                        [NoRun EXCEPT !.kind = "matvec", !.status = "running",
                                      !.input = RunInput(t, op.shape[2]),
                                      !.todo = 1..Len(op.iterator),
                                      !.acc = zeros(<<op.output_len,
                                                      op.ndim_iterable>>)]]
    /\ UNCHANGED <<call, op, fwd, inv, codec, invcall, dot, lin, wedges, cut, mem>>

\* caller t enters _rmatvec: y_shaped = y.reshape(...), inv_out =
\* np.zeros(self.inpdims), and the loop has every batch index to do
BeginRmatvec ==
    /\ op.status = "ok"
    /\ \E t \in Callers :
          /\ run[t].status = "none"
          /\ \A u \in 1..(t - 1) : run[u].status # "none"
          /\ run' = [run EXCEPT ![t] =
                        [NoRun EXCEPT !.kind = "rmatvec", !.status = "running",
                                      !.input = RunInput(t, op.shape[1]),
                                      !.todo = 1..Len(op.iterator),
                                      !.acc = zeros(op.inpdims)]]
    /\ UNCHANGED <<call, op, fwd, inv, codec, invcall, dot, lin, wedges, cut, mem>>

\* the call c after iteration i of its loop ended as r: the exception, or the
\* new accumulator and, after the last iteration, the ravelled output
AfterIteration(c, i, r) ==
    IF ~r.ok THEN [c EXCEPT !.status = "error", !.err = r.err]
    ELSE [c EXCEPT !.todo = @ \ {i}, !.acc = r.val,
                   !.status = IF c.todo = {i} THEN "ok" ELSE "running",
                   !.out = IF c.todo = {i} THEN ravel(r.val) ELSE <<>>]

\* calls whose accumulator is one buffer shared by the calls of a kind
RunAfter_shared(runs, t, i, r) ==
    [u \in Callers |->
        IF u = t THEN AfterIteration(runs[t], i, r)
        ELSE IF r.ok /\ runs[u].status = "running" /\ runs[u].kind = runs[t].kind
        THEN [runs[u] EXCEPT !.acc = r.val]
        ELSE runs[u]]

\* the calls after caller t ran iteration i: fwd_out and inv_out are local
\* variables of the call, so the other call is left as it is
RunAfter(runs, t, i, r) == [runs EXCEPT ![t] = AfterIteration(runs[t], i, r)]

\* caller t runs the body of the loop of _matvec for batch index i
MatvecStep(t, i) ==
    /\ run' = RunAfter(run, t, i,
                       MatvecIteration(op, reshape(run[t].input, op.inpdims),
                                       run[t].acc, i))
    /\ UNCHANGED <<call, op, fwd, inv, codec, invcall, dot, lin, wedges, cut, mem>>

\* caller t runs the body of the loop of _rmatvec for batch index i
RmatvecStep(t, i) ==
    /\ run' = RunAfter(run, t, i,
                       RmatvecIteration(op,
                                        reshape(run[t].input,
                                                <<op.output_len, op.ndim_iterable>>),
                                        run[t].acc, i))
    /\ UNCHANGED <<call, op, fwd, inv, codec, invcall, dot, lin, wedges, cut, mem>>

\* the batch index the loop of caller t processes next: the first not done
NextIndex(t) == {i \in run[t].todo : \A j \in run[t].todo : i <= j}

\* a caller runs the next iteration of the loop of its _matvec
StepMatvec ==
    \E t \in Callers :
        /\ run[t].kind = "matvec" /\ run[t].status = "running"
        /\ \E i \in NextIndex(t) : MatvecStep(t, i)

\* a caller runs the next iteration of the loop of its _rmatvec
StepRmatvec ==
    \E t \in Callers :
        /\ run[t].kind = "rmatvec" /\ run[t].status = "running"
        /\ \E i \in NextIndex(t) : RmatvecStep(t, i)

\* the loop of the first caller's _matvec processes any batch index not done
StepMatvecAnyOrder ==
    /\ run[1].kind = "matvec" /\ run[1].status = "running"
    /\ \E i \in run[1].todo : MatvecStep(1, i)

\* the loop of the first caller's _rmatvec processes any batch index not done
StepRmatvecAnyOrder ==
    /\ run[1].kind = "rmatvec" /\ run[1].status = "running"
    /\ \E i \in run[1].todo : RmatvecStep(1, i)

\* the loop of the first caller runs over the batch indices in any order,
\* interleaved with the call of the second caller
NextOrder ==
    \/ ConstructCoarse
    \/ BeginMatvec
    \/ BeginRmatvec
    \/ StepMatvec
    \/ StepRmatvec
    \/ StepMatvecAnyOrder
    \/ StepRmatvecAnyOrder

SpecOrder == Init /\ [][NextOrder]_vars

\* s = op.struct(v) for a caller's buffer v of the per-slice output length
StructOfBuffer ==
    /\ op.status = "ok"
    /\ codec.status = "none"
    /\ codec' = CodecResult([NoCodec EXCEPT !.v = RunInput(1, op.output_len)],
                            "struct",
                            struct(op.shapes, RunInput(1, op.output_len)))
    /\ UNCHANGED <<call, op, fwd, inv, invcall, dot, lin, run, wedges, cut, mem>>

\* two callers apply one operator at the same time, their iterations
\* interleaved in every way with each other and with struct and vect calls
NextLoop ==
    \/ ConstructCoarse
    \/ BeginMatvec
    \/ BeginRmatvec
    \/ StepMatvec
    \/ StepRmatvec
    \/ StructOfBuffer
    \/ Vect

SpecLoop == Init /\ [][NextLoop]_vars

\* s = op.struct(v) for a vector v of any length up to one more than the
\* per-slice output length
StructAny ==
    /\ op.status = "ok"
    /\ codec.status = "none"
    /\ \E n \in 0..(op.output_len + 1) : \E v \in VectorInputs(n) :
          codec' = CodecResult([NoCodec EXCEPT !.v = v], "struct",
                               struct(op.shapes, v))
    /\ UNCHANGED <<call, op, fwd, inv, invcall, dot, lin, run, wedges, cut, mem>>

\* struct called on vectors of the right and of a wrong length
NextCodec ==
    \/ ConstructApply
    \/ StructAny

SpecCodec == Init /\ [][NextCodec]_vars

\* FDCT(shape, axes=list(range(len(shape)))): every axis is a transform axis
ConstructFull ==
    /\ op.status = "none"
    /\ \E r \in 2..3 : \E dims \in DimsOfRank(r) : \E o \in ApplyOptions :
          Construct(dims, Range(r), o[1], MaxAngles, o[2], "complex128")

\* the callbacks handed to apply_along_wedges
Funs == ElementwiseFuns \cup {"shape", "args"}

\* y_struct_one = apply_along_wedges(y_struct, fun) for the struct of a vector
ApplyAlongWedges ==
    /\ codec.status = "struct"
    /\ wedges.status = "none"
    /\ \E fun \in Funs :
          wedges' = Bind(apply_along_wedges(codec.s, fun), LAMBDA r :
                       [NoWedges EXCEPT !.status = "applied", !.fun = fun,
                                        !.c_struct = r.c_struct,
                                        !.mapped = r.val, !.calls = r.calls])
    /\ UNCHANGED <<call, op, fwd, inv, codec, invcall, dot, lin, run, cut, mem>>

\* y_one = Cop.vect(y_struct_one)
VectOfMapped ==
    /\ wedges.status = "applied"
    /\ wedges.fun \in ElementwiseFuns
    /\ wedges' = Bind(vect(wedges.mapped), LAMBDA r :
                    [wedges EXCEPT !.status = IF r.ok THEN "flat" ELSE "error",
                                   !.flat = r.val])
    /\ UNCHANGED <<call, op, fwd, inv, codec, invcall, dot, lin, run, cut, mem>>

\* a - b, element by element
VSub(a, b) == [k \in 1..Len(a) |-> <<a[k][1] - b[k][1], a[k][2] - b[k][2]>>]

\* Cop.struct(y_one - y)
StructOfDifference ==
    /\ wedges.status = "flat"
    /\ wedges' = Bind(struct(op.shapes, VSub(wedges.flat, codec.v)), LAMBDA r :
                    [wedges EXCEPT !.status = IF r.ok THEN "diff" ELSE "error",
                                   !.diff = r.val])
    /\ UNCHANGED <<call, op, fwd, inv, codec, invcall, dot, lin, run, cut, mem>>

\* a callback applied to every wedge of the struct of a vector, the result
\* flattened and compared with the vector
NextWedges ==
    \/ ConstructFull
    \/ Struct
    \/ ApplyAlongWedges
    \/ VectOfMapped
    \/ StructOfDifference

SpecWedges == Init /\ [][NextWedges]_vars

\* np.arange(1, size + 1).reshape(shape) as a complex array: every element
\* differs from every other
arange(shape) == Array(shape, [p \in 1..Prod(shape) |-> <<p, 0>>])

\* shapes of the arrays that are split
SplitShapes == UNION {[1..r -> 1..MaxExtent] : r \in 1..MaxSplitRank}

\* numbers of splits for an array of rank ndim: one per axis or fewer
SplitArgs(ndim) == UNION {[1..m -> 1..MaxSplits] : m \in 1..ndim}

\* y = array_split_nd(x, *splits)
ArraySplitNd ==
    /\ cut.status = "none"
    /\ \E shape \in SplitShapes : \E args \in SplitArgs(Len(shape)) :
          cut' = [NoSplit EXCEPT !.status = "uneven", !.ary = arange(shape),
                                   !.args = args,
                                   !.uneven = array_split_nd(arange(shape), args)]
    /\ UNCHANGED <<call, op, fwd, inv, codec, invcall, dot, lin, run, wedges, mem>>

\* y = split_nd(x, *splits) for the array and the splits of array_split_nd
SplitNd ==
    /\ cut.status = "uneven"
    /\ cut' = Bind(split_nd(cut.ary, cut.args), LAMBDA r :
                   [cut EXCEPT !.status = IF r.ok THEN "even" ELSE "error",
                                 !.err = r.err, !.even = r.val])
    /\ UNCHANGED <<call, op, fwd, inv, codec, invcall, dot, lin, run, wedges, mem>>

\* e = energy_split(ary, rows, cols) for an array of two or more axes
EnergySplit ==
    /\ cut.status = "none"
    /\ \E shape \in SplitShapes : \E args \in SplitArgs(2) :
          /\ Len(shape) >= 2 /\ Len(args) = 2
          /\ cut' = [NoSplit EXCEPT !.status = "energy", !.ary = arange(shape),
                                      !.args = args,
                                      !.energy = energy_split(arange(shape),
                                                              args[1], args[2])]
    /\ UNCHANGED <<call, op, fwd, inv, codec, invcall, dot, lin, run, wedges, mem>>

\* arrays split along their axes, unevenly and evenly
NextSplit ==
    \/ ArraySplitNd
    \/ SplitNd
    \/ EnergySplit

SpecSplit == Init /\ [][NextSplit]_vars

\* FDCT(dims, axes) with the axes of a well-formed call counted from the end
ConstructFromEnd ==
    /\ op.status = "none"
    /\ \E r \in 2..MaxRank : \E dims \in DimsOfRank(r) : \E axes \in ApplyAxes(r) :
       \E o \in ApplyOptions :
          Construct(dims, [k \in 1..Len(axes) |-> axes[k] - r], o[1], MaxAngles,
                    o[2], "complex128")

\* construction alone, over well-formed arguments
NextBatch ==
    \/ ConstructApply
    \/ ConstructFromEnd

SpecBatch == Init /\ [][NextBatch]_vars

\* FDCT(dims, axes) over the last two axes of an input of 2 or 3 axes
ConstructTrailing ==
    /\ op.status = "none"
    /\ \E r \in 2..MaxInitRank : \E dims \in DimsOfRank(r) : \E o \in ApplyOptions :
          Construct(dims, <<r - 2, r - 1>>, o[1], MaxAngles, o[2], "complex128")

\* the value written through a leaf or into a flat vector
Normalization == <<0, 1>>

\* a buffer of n elements, every one different from every other, from Zero
\* and from Normalization
Labelled(n) == [k \in 1..n |-> <<k, 0>>]

\* s = op.struct(v) for an array v that owns its buffer or views the buffer of
\* a longer array from its second element on
StructOfArray ==
    /\ op.status = "ok"
    /\ mem.status = "none"
    /\ \E offset \in 0..1 :
          mem' = Bind(struct_views(<<Labelled(op.output_len + offset)>>, op.shapes,
                                   View(1, offset, 1, <<op.output_len>>)),
                      LAMBDA r :
                         [NoMem EXCEPT !.status = IF r.ok THEN "struct" ELSE "error",
                                       !.before = <<Labelled(op.output_len + offset)>>,
                                       !.heap = r.heap,
                                       !.v = View(1, offset, 1, <<op.output_len>>),
                                       !.leaves = r.val])
    /\ UNCHANGED <<call, op, fwd, inv, codec, invcall, dot, lin, run, wedges, cut>>

\* s[scale][wedge][...] = normalization, at any element of any leaf
WriteLeaf ==
    /\ mem.status = "struct"
    /\ \E i \in 1..Len(mem.leaves) : \E j \in 1..Len(mem.leaves[i]) :
       \E p \in 0..(Prod(mem.leaves[i][j].shape) - 1) :
          mem' = [mem EXCEPT !.status = "written",
                             !.before = mem.heap,
                             !.heap = ViewWrite(mem.heap, mem.leaves[i][j], p,
                                                Normalization),
                             !.written = [col |-> 0, scale |-> i, wedge |-> j,
                                          pos |-> p]]
    /\ UNCHANGED <<call, op, fwd, inv, codec, invcall, dot, lin, run, wedges, cut>>

\* flat = op.vect(s), for a struct as struct made it or written since
VectOfLeaves ==
    /\ mem.status \in {"struct", "written"}
    /\ mem' = Bind(vect_views(mem.heap, mem.leaves), LAMBDA r :
                  [mem EXCEPT !.status = IF r.ok THEN "vect" ELSE "error",
                              !.before = mem.heap,
                              !.heap = r.heap,
                              !.flat = r.val])
    /\ UNCHANGED <<call, op, fwd, inv, codec, invcall, dot, lin, run, wedges, cut>>

\* flat[p] = normalization, at any element of the vector vect returned
WriteFlat ==
    /\ mem.status = "vect"
    /\ \E p \in 0..(mem.flat.shape[1] - 1) :
          mem' = [mem EXCEPT !.status = "flatwritten",
                             !.before = mem.heap,
                             !.heap = ViewWrite(mem.heap, mem.flat, p,
                                                Normalization),
                             !.written = [col |-> 0, scale |-> 0, wedge |-> 0,
                                          pos |-> p]]
    /\ UNCHANGED <<call, op, fwd, inv, codec, invcall, dot, lin, run, wedges, cut>>

\* the writes the native inverse can make to the structs it is handed
NativeWrites ==
    {w \in [col : 1..Len(op.iterator), scale : 1..Len(op.shapes),
            wedge : 1..MaxAngles, pos : 0..(op.output_len - 1)] :
        /\ w.wedge <= Len(op.shapes[w.scale])
        /\ w.pos < Prod(op.shapes[w.scale][w.wedge])}

\* xinv = op.H * y for an array y that owns its buffer; the native inverse
\* writes nothing, or one element of one leaf of the struct of one column
RmatvecOfArray ==
    /\ op.status = "ok"
    /\ mem.status = "none"
    /\ \E w \in NativeWrites \cup {NoWrite} :
          mem' = Bind(_rmatvec_views(op, <<Labelled(op.shape[1])>>,
                                     Contiguous(1, op.shape[1]), w),
                      LAMBDA r :
                         [NoMem EXCEPT !.status = "inverse",
                                       !.before = <<Labelled(op.shape[1])>>,
                                       !.heap = r.heap,
                                       !.y = Contiguous(1, op.shape[1]),
                                       !.structs = r.structs,
                                       !.xinv = r.val,
                                       !.written = w])
    /\ UNCHANGED <<call, op, fwd, inv, codec, invcall, dot, lin, run, wedges, cut>>

\* structs, writes through their leaves, vect and the adjoint, on buffers
NextAlias ==
    \/ ConstructTrailing
    \/ StructOfArray
    \/ WriteLeaf
    \/ VectOfLeaves
    \/ WriteFlat
    \/ RmatvecOfArray

SpecAlias == Init /\ [][NextAlias]_vars

\* construction alone, over well-formed and malformed arguments
NextInit ==
    \/ ConstructAny
    \/ ConstructPreset

SpecInit == Init /\ [][NextInit]_vars

(***************************************************************************)
(* Quantities the properties are stated in.                                *)
(***************************************************************************)
\* the batch axes (0-based): the axes of the input that are no transform axis
BatchAxes == {ax \in 0..(Len(op.inpdims) - 1) :
                 \A k \in 1..Len(op.axes) : op.axes[k] # ax}

RECURSIVE ProdOver(_, _)
ProdOver(dims, axset) ==
    IF axset = {} THEN 1
    ELSE Bind(CHOOSE ax \in axset : TRUE, LAMBDA ax :
            dims[ax + 1] * ProdOver(dims, axset \ {ax}))

\* numBatchSlices: the product of the extents of the batch axes
NumBatchSlices == ProdOver(op.inpdims, BatchAxes)

\* column i (1-based) of a flat vector read as (output_len, numBatchSlices)
Column(y, i) == [k \in 1..op.output_len |-> y[(k - 1) * op.ndim_iterable + i]]

\* the flattened coefficients of the sub-array of x at batch index `index`
SliceCoefficients(x, index) ==
    vect(fdct_forward_wrap(op.fdim, op.nbscales, op.nbangles_coarse,
                           op.allcurvelets,
                           GetItem(reshape(x, op.inpdims), index)).val).val

\* the reconstruction of one flat per-slice coefficient vector
SliceReconstruction(col) ==
    fdct_inverse_wrap(op.fdim, op.input_shape, op.nbscales, op.nbangles_coarse,
                      op.allcurvelets, struct(op.shapes, col).val).val

\* the batch coordinate of an index: its entries at the batch axes, ascending
BatchCoordinate(index) ==
    iterable_dims(index, [ax \in 1..Len(index) |-> (ax - 1) \in BatchAxes])

BatchShape == BatchCoordinate(op.inpdims)

\* the transform axes are listed in ascending order
AscendingAxes == \A k \in 1..(Len(op.axes) - 1) : op.axes[k] < op.axes[k + 1]

\* the index at which section i (0-based) of an axis of length l split into n
\* starts when the first l % n sections have l // n + 1 elements and the
\* others l // n
SectionStart(l, n, i) ==
    IF i <= (l % n) THEN i * ((l \div n) + 1)
    ELSE (l % n) * ((l \div n) + 1) + (i - (l % n)) * (l \div n)

\* the paths (0-based, row-major) to the leaves of a list nested by args
SplitPaths(args) == product([k \in 1..Len(args) |-> Range(args[k])])

\* the leaf at a path of a nested list
RECURSIVE LeafAt(_, _)
LeafAt(nested, path) ==
    IF Len(path) = 0 THEN nested ELSE LeafAt(nested[Head(path) + 1], Tail(path))

\* every list at nesting level k has length args[k]
RECURSIVE NestedBy(_, _)
NestedBy(nested, args) ==
    /\ Len(nested) = args[1]
    /\ Len(args) > 1 => \A i \in 1..Len(nested) : NestedBy(nested[i], Tail(args))

\* the part of ary in section path[k] of axis first + k (0-based), for k from
\* position k0 (1-based) of args on
RECURSIVE SectionsFrom(_, _, _, _, _)
SectionsFrom(ary, args, path, first, k0) ==
    IF k0 > Len(args) THEN ary
    ELSE Bind(ary.shape[first + k0], LAMBDA l :
            SectionsFrom(TakeRange(ary, first + k0 - 1,
                                   SectionStart(l, args[k0], path[k0]),
                                   SectionStart(l, args[k0], path[k0] + 1)),
                         args, path, first, k0 + 1))

\* the part of ary that is section path[k] of axis k for every k
SectionsOfLeadingAxes(ary, args, path) == SectionsFrom(ary, args, path, 0, 1)

\* the part of ary that is section path[k] of axis ndim - len(args) + k
SectionsOfTrailingAxes(ary, args, path) ==
    SectionsFrom(ary, args, path, Len(ary.shape) - Len(args), 1)

\* the first split axis (0-based) of the call recorded in cut
FirstSplitAxis == Len(cut.ary.shape) - Len(cut.args)

(***************************************************************************)
(* Properties.                                                             *)
(***************************************************************************)
\* C1: for every operator built with 2 or 3 transform axes and every input x,
\* the adjoint applied to the forward output op * x returns x.
C1_RoundTrip ==
    inv.of = "forward" => (inv.status = "ok" /\ inv.x = fwd.x)

\* C2: struct succeeds on every flat vector v of the per-slice output length
\* and vect(struct(v)) is v, element by element in the same order.
C2_VectOfStruct ==
    /\ codec.status # "error"
    /\ codec.status \in {"vect", "restruct"} =>
          /\ Len(codec.flat) = Len(codec.v)
          /\ \A k \in 1..Len(codec.v) : codec.flat[k] = codec.v[k]

\* a struct of two scales or more, with two wedges or more in some scale, was
\* flattened again, and its vector has pairwise different elements
C2_Witness ==
    /\ codec.status = "vect"
    /\ Len(codec.s) >= 2
    /\ \E i \in 1..Len(codec.s) : Len(codec.s[i]) >= 2
    /\ \A k, l \in 1..Len(codec.v) : k # l => codec.v[k] # codec.v[l]

\* C3: for a struct s made by struct(), struct(vect(s)) has the same number of
\* scales, the same number of wedges in every scale, and in every leaf the same
\* shape and the same elements as s.
C3_StructOfVect ==
    codec.status = "restruct" =>
        /\ Len(codec.s2) = Len(codec.s)
        /\ \A i \in 1..Len(codec.s) :
              /\ Len(codec.s2[i]) = Len(codec.s[i])
              /\ \A j \in 1..Len(codec.s[i]) :
                    /\ codec.s2[i][j].shape = codec.s[i][j].shape
                    /\ codec.s2[i][j].data = codec.s[i][j].data

\* a struct with several scales, several wedges and a leaf of more than one
\* element was flattened and rebuilt
C3_Witness ==
    /\ codec.status = "restruct"
    /\ Len(codec.s) >= 2
    /\ \E i \in 1..Len(codec.s) :
          /\ Len(codec.s[i]) >= 2
          /\ \E j \in 1..Len(codec.s[i]) : Len(codec.s[i][j].data) >= 2
    /\ \A k, l \in 1..Len(codec.v) : k # l => codec.v[k] # codec.v[l]

\* C4: in the flat forward output the coefficients of one batch slice are
\* contiguous: output[b * perSliceOutputLen + k] is coefficient k of slice b.
C4_SliceMajor ==
    fwd.status = "ok" =>
        \A b \in 0..(Len(op.iterator) - 1) : \A k \in 0..(op.output_len - 1) :
            fwd.y[b * op.output_len + k + 1]
                = SliceCoefficients(fwd.x, op.iterator[b + 1])[k + 1]

\* C5: the operator shape is (numBatchSlices * perSliceOutputLen, product(dims)),
\* every forward output has as many elements as rows and every inverse output
\* as many as columns.
C5_Shape ==
    op.status = "ok" =>
        /\ op.shape = <<NumBatchSlices * op.output_len, Prod(call.dims)>>
        /\ fwd.status = "ok" => Len(fwd.y) = op.shape[1]
        /\ inv.status = "ok" => Len(inv.x) = op.shape[2]

\* an inverse of a forward output was computed by an operator with more than
\* one batch slice and more than one coefficient per slice
C5_Witness ==
    /\ inv.status = "ok" /\ inv.of = "forward"
    /\ NumBatchSlices > 1 /\ op.output_len > 1
    /\ Len(op.inpdims) > Len(op.axes)

\* C6: the batch enumeration has numBatchSlices distinct elements; each is a
\* full-rank index with an integer in [0, dims[ax]) at every batch axis and the
\* colon at every transform axis; the order is row-major over the batch axes.
C6_Iterator ==
    op.status = "ok" =>
        /\ Len(op.iterator) = NumBatchSlices
        /\ \A i, j \in 1..Len(op.iterator) : i # j => op.iterator[i] # op.iterator[j]
        /\ \A i \in 1..Len(op.iterator) :
              /\ Len(op.iterator[i]) = Len(op.inpdims)
              /\ \A ax \in 0..(Len(op.inpdims) - 1) :
                    IF ax \in BatchAxes
                    THEN op.iterator[i][ax + 1] \in 0..(op.inpdims[ax + 1] - 1)
                    ELSE op.iterator[i][ax + 1] = Colon
              /\ RavelIndex(BatchCoordinate(op.iterator[i]), BatchShape) = i - 1

\* an operator with two batch axes of extent 2
C6_Witness ==
    /\ op.status = "ok"
    /\ Cardinality(BatchAxes) >= 2
    /\ \A ax \in BatchAxes : op.inpdims[ax + 1] >= 2

\* C7: for every i, column i of the forward output holds the coefficients of
\* the sub-array at batch index iterator[i], and the inverse writes the
\* reconstruction of column i to the region at that same iterator[i].
C7_SameEnumeration ==
    /\ fwd.status = "ok" =>
          \A i \in 1..Len(op.iterator) :
              Column(fwd.y, i) = SliceCoefficients(fwd.x, op.iterator[i])
    /\ inv.status = "ok" =>
          \A i \in 1..Len(op.iterator) :
              GetItem(reshape(inv.x, op.inpdims), op.iterator[i])
                  = SliceReconstruction(Column(inv.y, i))

\* an inverse of a forward output over several batch slices whose input has
\* pairwise different elements
C7_Witness ==
    /\ inv.status = "ok" /\ inv.of = "forward"
    /\ Len(op.iterator) >= 2
    /\ \A k, l \in 1..Len(fwd.x) : k # l => fwd.x[k] # fwd.x[l]

\* C8: a call with a number of transform axes other than 2 or 3 raises an
\* error and yields no operator.
C8_Arity ==
    (op.status # "none" /\ Len(call.axes) \notin {2, 3}) => op.status = "error"

\* a call with 4 in-range axes and a complex dtype was rejected
C8_Witness ==
    /\ op.status = "error" /\ op.error = "NotImplementedError"
    /\ Len(call.axes) = 4
    /\ call.dtype = "complex128"

\* C9: every constructed operator has pairwise distinct transform axes (a call
\* whose axes repeat after normalization fails).
C9_DistinctAxes ==
    op.status = "ok" =>
        \A k, l \in 1..Len(op.axes) : k # l => op.axes[k] # op.axes[l]

\* C10: every given axis a in [-rank, rank) is stored as a mod rank, which lies
\* in [0, rank); a call with an axis outside [-rank, rank) fails.
C10_Normalized ==
    LET rank == Len(call.dims)
    IN /\ (op.status # "none"
           /\ \E k \in 1..Len(call.axes) :
                 call.axes[k] < -rank \/ call.axes[k] >= rank)
          => op.status = "error"
       /\ op.status = "ok" =>
             /\ Len(op.axes) = Len(call.axes)
             /\ \A k \in 1..Len(op.axes) :
                   /\ op.axes[k] = call.axes[k] % rank
                   /\ op.axes[k] \in 0..(rank - 1)

\* an operator built from a call that names the last axis as -1
C10_Witness ==
    /\ op.status = "ok"
    /\ \E k \in 1..Len(call.axes) :
          call.axes[k] = -1 /\ op.axes[k] = Len(call.dims) - 1

\* C11: a call of FDCT, FDCT2D or FDCT3D with a real floating or integer dtype
\* yields no operator, and raises the unsupported-type error whenever the same
\* call with a complex dtype builds an operator; every constructed operator has
\* a complex floating dtype.
C11_ComplexOnly ==
    /\ (op.status # "none" /\ call.dtype \notin {"complex64", "complex128"})
          => /\ op.status = "error"
             /\ (FDCT_init(call.dims, call.axes, call.nbscales,
                           call.nbangles_coarse, call.allcurvelets,
                           "complex128").status = "ok"
                 /\ (call.cls = "FDCT2D" => Len(call.axes) = 2)
                 /\ (call.cls = "FDCT3D" => Len(call.axes) = 3))
                   => op.error = "NotImplementedError"
    /\ op.status = "ok" => (op.dtype \in {"complex64", "complex128"} /\ op.cpx)

\* an FDCT2D call with an integer dtype and otherwise valid arguments was
\* rejected as an unsupported type
C11_Witness ==
    /\ call.cls = "FDCT2D" /\ call.dtype = "int64"
    /\ Len(call.axes) = 2 /\ call.axes[1] # call.axes[2]
    /\ op.status = "error" /\ op.error = "NotImplementedError"

\* C13: FDCT2D (FDCT3D) with axes omitted transforms the last 2 (3) axes; called
\* with another number of axes it raises the arity error without a native call
\* and whatever the other arguments are; called with that number of axes it
\* gives what FDCT gives for the same arguments.
C13_Presets ==
    call.cls \in {"FDCT2D", "FDCT3D"} =>
        LET n == IF call.cls = "FDCT2D" THEN 2 ELSE 3
        IN /\ (~call.axes_given /\ op.status = "ok")
                 => op.axes = [k \in 1..n |-> Len(call.dims) - n + k - 1]
           /\ Len(call.axes) # n
                 => (op.status = "error" /\ op.error = "ValueError"
                     /\ op.native = <<>>)
           /\ Len(call.axes) = n
                 => op = FDCT_init(call.dims, call.axes, call.nbscales,
                                   call.nbangles_coarse, call.allcurvelets,
                                   call.dtype)

\* an FDCT3D built without axes on an input of rank 3
C13_Witness ==
    /\ call.cls = "FDCT3D" /\ ~call.axes_given
    /\ Len(call.dims) = 3
    /\ op.status = "ok" /\ op.axes = <<0, 1, 2>>

\* C14: when nbscales is omitted, the operator's number of scales is
\* ceil(log2(m) - 3) with m the least extent of the dims argument (stated for
\* the operators whose transform axes are pairwise distinct).
C14_DefaultScales ==
    (/\ op.status = "ok" /\ call.nbscales = None
     /\ \A k, l \in 1..Len(op.axes) : k # l => op.axes[k] # op.axes[l])
        => op.nbscales = CeilLog2(MinOf(call.dims)) - 3

\* C12: struct(v) raises for every v whose length differs from the per-slice
\* output length, shorter or longer, and returns no struct for it.
C12_LengthMismatch ==
    (codec.status # "none" /\ Len(codec.v) # op.output_len)
        => codec.status = "error"

\* C15: construction makes exactly one native call, the parameter query of the
\* wrapper of as many dimensions as there are transform axes; a forward makes
\* exactly one native forward call per batch index, in enumeration order, and
\* an inverse one native inverse call per batch index, all with the operator's
\* (nbscales, nbangles_coarse, allcurvelets); forward, inverse, struct and
\* vect make no parameter query, and struct and vect no native call at all.
C15_NativeCalls ==
    /\ op.status = "ok" =>
          op.native = <<NativeCall("param", Len(op.axes),
                                   op.input_shape
                                   \o <<op.nbscales, op.nbangles_coarse,
                                        op.allcurvelets>>)>>
    /\ fwd.status = "ok" =>
          fwd.native = [i \in 1..NumBatchSlices |->
                           NativeCall("forward", Len(op.axes),
                                      <<op.nbscales, op.nbangles_coarse,
                                        op.allcurvelets, op.iterator[i]>>)]
    /\ inv.status = "ok" =>
          inv.native = [i \in 1..NumBatchSlices |->
                           NativeCall("inverse", Len(op.axes),
                                      op.input_shape
                                      \o <<op.nbscales, op.nbangles_coarse,
                                           op.allcurvelets, i - 1>>)]
    /\ \A k \in 1..Len(fwd.native) : fwd.native[k].fn = "forward"
    /\ \A k \in 1..Len(inv.native) : inv.native[k].fn = "inverse"
    /\ codec.native = <<>>

\* a forward and the inverse of its output were computed over several batch
\* slices
C15_Witness ==
    /\ fwd.status = "ok" /\ inv.status = "ok" /\ inv.of = "forward"
    /\ NumBatchSlices >= 2
    /\ Len(fwd.native) >= 2 /\ Len(inv.native) >= 2

\* C16: for every coefficient vector y of length rows, op.inverse(y) ends as
\* op.H * y ends and returns the same vector.
C16_InverseIsAdjoint ==
    invcall.status # "none" =>
        /\ invcall.y = inv.y
        /\ invcall.status = inv.status
        /\ invcall.err = inv.err
        /\ invcall.x = inv.x

\* both were applied to a vector of pairwise different elements over several
\* batch slices, and succeeded
C16_Witness ==
    /\ invcall.status = "ok" /\ inv.status = "ok"
    /\ Len(op.iterator) >= 2
    /\ \A k, l \in 1..Len(inv.y) : k # l => inv.y[k] # inv.y[l]

\* C17: for every u of length cols and v of length rows the dot test passes:
\* op * u and op.H * v are computed and <op * u, v> = <u, op.H * v>.
C17_DotTest ==
    dot.status = "done" =>
        /\ dot.y.status = "ok"
        /\ dot.x.status = "ok"
        /\ Vdot(dot.y.y, dot.v) = Vdot(dot.u, dot.x.x)

\* C18: the forward ends alike on x1, on x2 and on a * x1 + b * x2, and when it
\* succeeds forward(a * x1 + b * x2) = a * forward(x1) + b * forward(x2); an
\* all-zero input gives an all-zero output.
C18_Linear ==
    lin.status = "done" =>
        /\ lin.y.status = lin.y1.status
        /\ lin.y.status = lin.y2.status
        /\ lin.y.status = "ok" =>
              /\ lin.y.y = Combine(lin.a, lin.y1.y, lin.b, lin.y2.y)
              /\ (\A k \in 1..Len(lin.y.x) : lin.y.x[k] = Zero)
                    => \A k \in 1..Len(lin.y.y) : lin.y.y[k] = Zero

\* the forward succeeded on a combination with nonzero scalars of two
\* different inputs over several batch slices
C18_Witness ==
    /\ lin.status = "done" /\ lin.y.status = "ok"
    /\ lin.a # Zero /\ lin.b # Zero
    /\ lin.x1 # lin.x2
    /\ Len(op.iterator) >= 2

\* the flat positions (1-based) iteration i of the forward loop writes: column
\* i - 1 of the (output_len, numBatchSlices) accumulator
ForwardRegion(i) ==
    Bind(<<op.output_len, op.ndim_iterable>>, LAMBDA shape :
        Bind(Positions(shape, Selected(shape, <<Colon, i - 1>>)), LAMBDA pos :
            {pos[q] : q \in 1..Len(pos)}))

\* the flat positions (1-based) iteration i of the inverse loop writes: the
\* region of the output at batch index iterator[i]
InverseRegion(i) ==
    Bind(Positions(op.inpdims, Selected(op.inpdims, op.iterator[i])), LAMBDA pos :
        {pos[q] : q \in 1..Len(pos)})

\* what the call c returns when it runs alone with the loop of the code
Alone(c) == IF c.kind = "matvec" THEN _matvec(op, c.input) ELSE _rmatvec(op, c.input)

\* C19: the regions written by distinct iterations of the forward loop, and of
\* the inverse loop, of every operator constructed (looked at before any call
\* begins) are disjoint and together cover the whole output; a call
\* whose loop ran over the batch indices in any order, interleaved with
\* another call, ends as the sequential loop ends and returns the same vector.
C19_Independent ==
    /\ (op.status = "ok" /\ \A t \in Callers : run[t].status = "none") =>
          /\ \A i, j \in 1..Len(op.iterator) :
                i # j => /\ ForwardRegion(i) \cap ForwardRegion(j) = {}
                         /\ InverseRegion(i) \cap InverseRegion(j) = {}
          /\ UNION {ForwardRegion(i) : i \in 1..Len(op.iterator)} = 1..op.shape[1]
          /\ UNION {InverseRegion(i) : i \in 1..Len(op.iterator)} = 1..op.shape[2]
    /\ \A t \in Callers :
          run[t].status \in {"ok", "error"} =>
              /\ (run[t].status = "ok") = Alone(run[t]).ok
              /\ run[t].status = "ok" => run[t].out = Alone(run[t]).val

\* the forward of the first caller has run the last of three or more batch
\* indices before all the others
C19_Witness ==
    /\ run[1].kind = "matvec" /\ run[1].status = "running"
    /\ Len(op.iterator) >= 3
    /\ run[1].todo = 1..(Len(op.iterator) - 1)

\* C20: no step of a forward or inverse call and no struct or vect call
\* changes the operator (shape table, batch enumeration, per-slice output
\* length, axes, configuration), the input buffer of a call in progress or the
\* vector given to struct or the result of a call that has returned, and every
\* call that returns while another call runs on the same operator returns what
\* it returns alone.
C20_Immutable ==
    [][/\ op.status = "ok" => op' = op
       /\ codec.status # "none" => codec'.v = codec.v
       /\ \A t \in Callers :
             /\ run[t].status = "running" => run'[t].input = run[t].input
             /\ run[t].status \in {"ok", "error"} => run'[t] = run[t]
             /\ (run[t].status = "running" /\ run'[t].status = "ok")
                   => run'[t].out = Alone(run[t]).val]_vars

\* both callers were in the middle of a call on the same operator, one a
\* forward and one an inverse, each with iterations done and iterations left,
\* and struct and vect had been called
C20_Witness ==
    /\ run[1].status = "running" /\ run[2].status = "running"
    /\ run[1].kind # run[2].kind
    /\ \A t \in Callers :
          /\ run[t].todo # {}
          /\ run[t].todo # 1..Len(op.iterator)
    /\ codec.status = "vect"

\* C21: apply_along_wedges returns a nested list with as many scales, and as
\* many wedges in every scale, as c_struct; entry [s][w] is fun(c_struct[s][w],
\* w, s, number of wedges of scale s, number of scales); fun is called once
\* per wedge, scales ascending and wedges ascending within a scale; c_struct
\* is as it was before the call.
C21_AlongWedges ==
    wedges.status # "none" =>
        /\ Len(wedges.mapped) = Len(codec.s)
        /\ \A s \in 1..Len(codec.s) :
              /\ Len(wedges.mapped[s]) = Len(codec.s[s])
              /\ \A w \in 1..Len(codec.s[s]) :
                    wedges.mapped[s][w]
                        = Fun(wedges.fun, codec.s[s][w], w - 1, s - 1,
                              Len(codec.s[s]), Len(codec.s))
        /\ Len(wedges.calls) = Sum([s \in 1..Len(codec.s) |-> Len(codec.s[s])])
        /\ \A n \in 1..Len(wedges.calls) :
              /\ wedges.calls[n].iscale \in 0..(Len(codec.s) - 1)
              /\ wedges.calls[n].iwedge
                    \in 0..(Len(codec.s[wedges.calls[n].iscale + 1]) - 1)
              /\ wedges.calls[n].c_wedge
                    = codec.s[wedges.calls[n].iscale + 1][wedges.calls[n].iwedge + 1]
              /\ wedges.calls[n].nangles = Len(codec.s[wedges.calls[n].iscale + 1])
              /\ wedges.calls[n].nscales = Len(codec.s)
        /\ \A n \in 1..(Len(wedges.calls) - 1) :
              \/ wedges.calls[n].iscale < wedges.calls[n + 1].iscale
              \/ /\ wedges.calls[n].iscale = wedges.calls[n + 1].iscale
                 /\ wedges.calls[n].iwedge < wedges.calls[n + 1].iwedge
        /\ wedges.c_struct = codec.s

\* the callback that returns its four integer arguments was applied to a
\* struct of several scales with several wedges in one of them
C21_Witness ==
    /\ wedges.status = "applied" /\ wedges.fun = "args"
    /\ Len(codec.s) >= 2
    /\ \E s \in 1..Len(codec.s) : Len(codec.s[s]) >= 2

\* C22: for every flat vector y of the per-slice output length and every
\* elementwise f, flattening the struct of y mapped by f succeeds and gives f of
\* every element of y, in order; with f = adding 1, the struct of the
\* difference to y has the operator's shapes and holds a one in every element.
C22_Commutes ==
    /\ wedges.status # "error"
    /\ wedges.status \in {"flat", "diff"} =>
          /\ Len(wedges.flat) = Len(codec.v)
          /\ \A k \in 1..Len(codec.v) :
                wedges.flat[k] = Elementwise(wedges.fun, codec.v[k])
    /\ (wedges.status = "diff" /\ wedges.fun = "add_one") =>
          /\ Len(wedges.diff) = Len(op.shapes)
          /\ \A s \in 1..Len(wedges.diff) :
                /\ Len(wedges.diff[s]) = Len(op.shapes[s])
                /\ \A w \in 1..Len(wedges.diff[s]) :
                      /\ wedges.diff[s][w].shape = op.shapes[s][w]
                      /\ \A k \in 1..Len(wedges.diff[s][w].data) :
                            wedges.diff[s][w].data[k] = <<1, 0>>

\* 1 was added to every wedge of the struct of a vector of pairwise different
\* elements, with several scales and several wedges in one of them, and the
\* struct of the difference was taken
C22_Witness ==
    /\ wedges.status = "diff" /\ wedges.fun = "add_one"
    /\ Len(codec.s) >= 2
    /\ \E s \in 1..Len(codec.s) : Len(codec.s[s]) >= 2
    /\ \A k, l \in 1..Len(codec.v) : k # l => codec.v[k] # codec.v[l]

\* C23: for every array and 1 <= len(args) <= ndim, the result of
\* array_split_nd is nested to depth len(args) with lists of length args[k] at
\* level k, and the leaf at path (i_0, ..., i_m) is section i_k of axis k, for
\* every k, of the array; every entry [irow][icol] of energy_split is the
\* energy of section irow of axis 0 and section icol of axis 1.
C23_SplitAxes ==
    /\ cut.status \in {"uneven", "even", "error"} =>
          /\ NestedBy(cut.uneven, cut.args)
          /\ \A path \in {SplitPaths(cut.args)[n] : n \in 1..Prod(cut.args)} :
                LeafAt(cut.uneven, path)
                    = SectionsOfLeadingAxes(cut.ary, cut.args, path)
    /\ cut.status = "energy" =>
          \A irow \in 1..cut.args[1] : \A icol \in 1..cut.args[2] :
              cut.energy[irow][icol]
                  = energy(SectionsOfLeadingAxes(cut.ary, cut.args,
                                                 <<irow - 1, icol - 1>>))

\* C24: in the result of array_split_nd, along every split axis of length l
\* split into n sections the leaves of the first l % n sections have extent
\* l // n + 1 and the others l // n; every leaf is the part of the array in its
\* sections, so that the leaves tile the array: every element is in exactly one
\* leaf; an array of shape (a_0 * n_0, ..., a_k * n_k) split by (n_0, ..., n_k)
\* gives leaves all of shape (a_0, ..., a_k).
C24_Sections ==
    cut.status \in {"uneven", "even", "error"} =>
        Bind({SplitPaths(cut.args)[n] : n \in 1..Prod(cut.args)}, LAMBDA paths :
            /\ \A path \in paths :
                  /\ \A k \in 1..Len(cut.args) :
                        Bind(cut.ary.shape[FirstSplitAxis + k], LAMBDA l :
                            LeafAt(cut.uneven, path).shape[FirstSplitAxis + k]
                                = IF path[k] < (l % cut.args[k])
                                  THEN (l \div cut.args[k]) + 1
                                  ELSE l \div cut.args[k])
                  /\ \A q \in 1..FirstSplitAxis :
                        LeafAt(cut.uneven, path).shape[q] = cut.ary.shape[q]
                  /\ LeafAt(cut.uneven, path)
                        = SectionsOfTrailingAxes(cut.ary, cut.args, path)
            /\ \A p \in 1..Len(cut.ary.data) :
                  Cardinality({path \in paths :
                                  \E t \in 1..Len(LeafAt(cut.uneven, path).data) :
                                      LeafAt(cut.uneven, path).data[t]
                                          = cut.ary.data[p]}) = 1
            /\ Sum([n \in 1..Prod(cut.args) |->
                       Len(LeafAt(cut.uneven, SplitPaths(cut.args)[n]).data)])
                  = Len(cut.ary.data)
            /\ (/\ Len(cut.args) = Len(cut.ary.shape)
                /\ \A k \in 1..Len(cut.args) : cut.ary.shape[k] % cut.args[k] = 0)
                  => \A path \in paths :
                        LeafAt(cut.uneven, path).shape
                            = [k \in 1..Len(cut.args) |->
                                  cut.ary.shape[k] \div cut.args[k]])

\* an array of two axes was split along both, the last axis into two or more
\* sections of different sizes
C24_Witness ==
    /\ cut.status = "uneven"
    /\ Len(cut.ary.shape) = 2 /\ Len(cut.args) = 2
    /\ cut.args[1] >= 2 /\ cut.args[2] >= 2
    /\ cut.ary.shape[2] > cut.args[2]
    /\ cut.ary.shape[2] % cut.args[2] # 0

\* C25: split_nd raises an error, and returns nothing, whenever the length of
\* some split axis is not divisible by its number of splits; otherwise it
\* returns the nested sub-arrays array_split_nd returns, all of one shape.
C25_EvenOnly ==
    cut.status \in {"even", "error"} =>
        IF \E k \in 1..Len(cut.args) :
              cut.ary.shape[FirstSplitAxis + k] % cut.args[k] # 0
        THEN cut.status = "error" /\ cut.err = "ValueError" /\ cut.even = <<>>
        ELSE /\ cut.status = "even"
             /\ cut.even = cut.uneven
             /\ \A n, m \in 1..Prod(cut.args) :
                   LeafAt(cut.even, SplitPaths(cut.args)[n]).shape
                       = LeafAt(cut.even, SplitPaths(cut.args)[m]).shape

\* split_nd raised on an array whose first split axis divides evenly and
\* whose second does not
C25_Witness ==
    /\ cut.status = "error"
    /\ Len(cut.args) = 2
    /\ cut.args[1] >= 2
    /\ cut.ary.shape[1] % cut.args[1] = 0
    /\ cut.ary.shape[2] % cut.args[2] # 0

\* the sizes of the leaves of a shape table, scale after scale and wedge after
\* wedge within a scale
LeafSizes(shapes) ==
    ConcatAll([i \in 1..Len(shapes) |->
                  [j \in 1..Len(shapes[i]) |-> Prod(shapes[i][j])]])

\* the number of leaves before leaf (i, j) in that order
LeavesBefore(shapes, i, j) ==
    Sum([q \in 1..(i - 1) |-> Len(shapes[q])]) + (j - 1)

\* offset(s, w): the sum of the sizes of all earlier leaves
Offset(shapes, i, j) ==
    Sum(SubSeq(LeafSizes(shapes), 1, LeavesBefore(shapes, i, j)))

\* C26: struct(v) has one list per scale and one leaf per wedge of the shape
\* table; leaf [s][w] has shape shapes[s][w] and holds, in row-major order, the
\* contiguous elements v[offset(s, w) : offset(s, w) + product(shapes[s][w])],
\* offset(s, w) being the sum of the sizes of all earlier leaves (scales
\* ascending, wedges ascending within a scale); consecutive leaves neither
\* overlap nor leave a gap, and the cursor of the walk, which starts at 0, ends
\* at the per-slice output length, the sum of the sizes of all leaves.
C26_Cursor ==
    (op.status = "ok" /\ codec.status = "struct") =>
        /\ Len(codec.s) = Len(op.shapes)
        /\ \A i \in 1..Len(op.shapes) :
              /\ Len(codec.s[i]) = Len(op.shapes[i])
              /\ \A j \in 1..Len(op.shapes[i]) :
                    Bind(Offset(op.shapes, i, j), LAMBDA offset :
                        /\ codec.s[i][j].shape = op.shapes[i][j]
                        /\ Len(codec.s[i][j].data) = Prod(op.shapes[i][j])
                        /\ \A idx \in {product([a \in 1..Len(op.shapes[i][j]) |->
                                          Range(op.shapes[i][j][a])])[n] :
                                         n \in 1..Prod(op.shapes[i][j])} :
                              codec.s[i][j].data[RavelIndex(idx, op.shapes[i][j]) + 1]
                                  = codec.v[offset
                                            + RavelIndex(idx, op.shapes[i][j]) + 1]
                        /\ offset + Prod(op.shapes[i][j])
                              = IF j < Len(op.shapes[i])
                                THEN Offset(op.shapes, i, j + 1)
                                ELSE IF i < Len(op.shapes)
                                THEN Offset(op.shapes, i + 1, 1)
                                ELSE op.output_len)
        /\ Offset(op.shapes, 1, 1) = 0
        /\ StructScales(op.shapes, codec.v, 0, 1).k = op.output_len
        /\ op.output_len = Sum(LeafSizes(op.shapes))

\* struct cut a vector of pairwise different elements into the leaves of two
\* scales, the second of which has a leaf that is not empty
C26_Witness ==
    /\ op.status = "ok" /\ codec.status = "struct"
    /\ Len(op.shapes) >= 2
    /\ Prod(op.shapes[1][1]) >= 1
    /\ \E j \in 1..Len(op.shapes[2]) : Prod(op.shapes[2][j]) >= 1
    /\ \A k, l \in 1..Len(codec.v) : k # l => codec.v[k] # codec.v[l]

\* the axes of a tuple of pairwise distinct axes in ascending order
SortedAxes(axes) ==
    [k \in 1..Len(axes) |->
        CHOOSE a \in {axes[q] : q \in 1..Len(axes)} :
            Cardinality({b \in {axes[q] : q \in 1..Len(axes)} : b < a}) = k - 1]

\* C27: the transform axes are a set: whatever the order in which pairwise
\* distinct axes are listed, the extents passed to the native parameter query
\* and to every native inverse call are, in order, the shape of the sub-array
\* forward passes to the native forward and of the region inverse writes at
\* each batch index; and the operator built with the same axes in ascending
\* order has the same shape table and per-slice output length.
C27_AxesAreASet ==
    (/\ op.status = "ok"
     /\ \A k, l \in 1..Len(op.axes) : k # l => op.axes[k] # op.axes[l]) =>
        /\ \A i \in 1..Len(op.iterator) :
              SubSeq(op.native[1].args, 1, op.fdim)
                  = SubShape(op.inpdims, op.iterator[i])
        /\ inv.status = "ok" =>
              \A i \in 1..Len(inv.native) :
                  SubSeq(inv.native[i].args, 1, op.fdim)
                      = SubShape(op.inpdims, op.iterator[i])
        /\ Bind(FDCT_init(call.dims, SortedAxes(op.axes), call.nbscales,
                          call.nbangles_coarse, call.allcurvelets, call.dtype),
                LAMBDA sorted :
                   /\ sorted.status = "ok"
                   /\ sorted.shapes = op.shapes
                   /\ sorted.output_len = op.output_len)

\* the batch axes in ascending order
BatchAxesAscending ==
    [k \in 1..Cardinality(BatchAxes) |->
        CHOOSE a \in BatchAxes : Cardinality({b \in BatchAxes : b < a}) = k - 1]

\* C28: the batch axes are the axes of the input that are no transform axis,
\* in ascending order; batchShape (the leading part of dimsd) is the input
\* extents at those axes; numBatchSlices is the product of batchShape, 1 when
\* there is no batch axis, which is when the rank equals the number of
\* transform axes; the enumeration then has the single all-wildcard index.
C28_BatchAxes ==
    op.status = "ok" =>
        /\ SubSeq(op.dimsd, 1, Len(op.dimsd) - 1)
              = [k \in 1..Cardinality(BatchAxes) |->
                    op.inpdims[BatchAxesAscending[k] + 1]]
        /\ op.ndim_iterable
              = Prod([k \in 1..Cardinality(BatchAxes) |->
                         op.inpdims[BatchAxesAscending[k] + 1]])
        /\ Len(op.iterator) = op.ndim_iterable
        /\ (BatchAxes = {})
              <=> (Len(op.inpdims)
                      = Cardinality({op.axes[k] : k \in 1..Len(op.axes)}))
        /\ BatchAxes = {} =>
              /\ op.ndim_iterable = 1
              /\ op.iterator = <<[ax \in 1..Len(op.inpdims) |-> Colon]>>

\* an operator with two batch axes of different extents, the larger first
C28_Witness ==
    /\ op.status = "ok"
    /\ Cardinality(BatchAxes) = 2
    /\ op.inpdims[BatchAxesAscending[1] + 1] > op.inpdims[BatchAxesAscending[2] + 1]
    /\ \E k \in 1..Len(call.axes) : call.axes[k] < 0

LeafViews(leaves) == ConcatAll(leaves)

\* C30: struct does not copy: leaf [s][w] of struct(v) is a view of the buffer
\* of v at v[offset(s, w) : offset(s, w) + size(s, w)] and struct allocates
\* nothing; writing element p of a leaf changes v[offset(s, w) + p], no other
\* element of the buffer of v and no element of another leaf, and a following
\* vect returns the values as written; vect returns a vector in a buffer of
\* its own, so that writing it changes neither v nor a leaf; the adjoint hands
\* struct a copy of each column, so that the buffer of the caller's vector is
\* as before whatever the native inverse writes to the structs it is handed.
C30_Aliasing ==
    /\ mem.status \in {"struct", "written", "vect", "flatwritten"} =>
          /\ \A i \in 1..Len(op.shapes) : \A j \in 1..Len(op.shapes[i]) :
                /\ i <= Len(mem.leaves) /\ j <= Len(mem.leaves[i])
                /\ mem.leaves[i][j].base = mem.v.base
                /\ mem.leaves[i][j].shape = op.shapes[i][j]
                /\ \A p \in 0..(Prod(op.shapes[i][j]) - 1) :
                      Address(mem.leaves[i][j], p)
                          = Address(mem.v, Offset(op.shapes, i, j) + p)
          /\ mem.status = "struct" => mem.heap = mem.before
    /\ mem.status = "written" =>
          /\ Len(mem.heap) = Len(mem.before)
          /\ \A b \in 1..Len(mem.heap) : \A q \in 1..Len(mem.heap[b]) :
                mem.heap[b][q]
                    = IF /\ b = mem.v.base
                         /\ q = Address(mem.v, Offset(op.shapes, mem.written.scale,
                                                      mem.written.wedge)
                                               + mem.written.pos)
                      THEN Normalization
                      ELSE mem.before[b][q]
          /\ \A i \in 1..Len(mem.leaves) : \A j \in 1..Len(mem.leaves[i]) :
                \A p \in 1..Prod(mem.leaves[i][j].shape) :
                    ViewRead(mem.heap, mem.leaves[i][j])[p]
                        = IF /\ i = mem.written.scale /\ j = mem.written.wedge
                             /\ p = mem.written.pos + 1
                          THEN Normalization
                          ELSE ViewRead(mem.before, mem.leaves[i][j])[p]
    /\ mem.status = "vect" =>
          /\ mem.flat.base # mem.v.base
          /\ \A n \in 1..Len(LeafViews(mem.leaves)) :
                LeafViews(mem.leaves)[n].base # mem.flat.base
          /\ mem.flat.base = Len(mem.before) + 1
          /\ SubSeq(mem.heap, 1, Len(mem.before)) = mem.before
          /\ ViewRead(mem.heap, mem.flat) = ViewRead(mem.heap, mem.v)
          /\ mem.written.scale # 0 =>
                ViewRead(mem.heap, mem.flat)[Offset(op.shapes, mem.written.scale,
                                                    mem.written.wedge)
                                             + mem.written.pos + 1]
                    = Normalization
    /\ mem.status = "flatwritten" =>
          /\ ViewRead(mem.heap, mem.v) = ViewRead(mem.before, mem.v)
          /\ \A n \in 1..Len(LeafViews(mem.leaves)) :
                ViewRead(mem.heap, LeafViews(mem.leaves)[n])
                    = ViewRead(mem.before, LeafViews(mem.leaves)[n])
          /\ ViewRead(mem.heap, mem.flat)[mem.written.pos + 1] = Normalization
    /\ mem.status = "inverse" =>
          /\ mem.heap[mem.y.base] = mem.before[mem.y.base]
          /\ Len(mem.structs) = Len(op.iterator)
          /\ \A c \in 1..Len(mem.structs) :
                \A n \in 1..Len(LeafViews(mem.structs[c])) :
                    /\ LeafViews(mem.structs[c])[n].base # mem.y.base
                    /\ LeafViews(mem.structs[c])[n].base # mem.xinv.base
                    /\ \A d \in 1..Len(mem.structs) : c # d =>
                          \A m \in 1..Len(LeafViews(mem.structs[d])) :
                              LeafViews(mem.structs[c])[n].base
                                  # LeafViews(mem.structs[d])[m].base
          /\ mem.xinv.base # mem.y.base
          /\ mem.written.col # 0 =>
                ViewRead(mem.heap,
                         mem.structs[mem.written.col][mem.written.scale][mem.written.wedge])[mem.written.pos + 1]
                    = Zero

\* an element of a leaf of the second scale, not the first of its leaf, was
\* written through the struct of a vector that views a longer buffer, and the
\* struct was flattened afterwards
C30_Witness ==
    /\ mem.status = "vect"
    /\ mem.v.offset = 1
    /\ mem.written.scale = 2
    /\ mem.written.pos >= 1
    /\ Len(mem.leaves) >= 2

====
